---- MODULE Spec2Model ----
(***************************************************************************)
(* A model of the decision core of pingora-waf: the CC limiter state       *)
(* machine (policy/cc.rs) and the action that consumes it                  *)
(* (policy/protection/engine.rs), the reload supervisors (waf/update.rs,   *)
(* upstream/update.rs, policy/update.rs, policy/manager.rs), the streaming *)
(* body scanner (server/proxy.rs, waf/engine.rs), the header-phase policy  *)
(* enforcement (policy/enforcer.rs, policy/protection), the domain matcher *)
(* and policy resolution (policy/domain_map.rs, policy/manager.rs), the    *)
(* upstream router and its CNAME cache (upstream/router.rs), the SNI       *)
(* certificate store (server/certs.rs), the shutdown of the supervisors,   *)
(* the loading of policy files (policy/protection/types.rs), the host and  *)
(* path normalizers (waf/context.rs, waf/normalizer.rs), the header        *)
(* evaluation of WAF rules and their compilation (waf/engine.rs,           *)
(* waf/rules/compiler.rs), the CNAME chain walk and the concurrent         *)
(* round-robin picks of the router (upstream/router.rs), the limiter's     *)
(* prune sweep (policy/cc.rs) and the limiter key string                   *)
(* (policy/protection/key.rs).                                             *)
(*                                                                         *)
(* Each subsystem has its own specification over the shared variables; the *)
(* variables of the other subsystems stay at their idle value.             *)
(***************************************************************************)
EXTENDS Integers, Sequences, FiniteSets, TLC

VARIABLES
    now,      \* the monotonic clock (Instant::now()), in ticks
    cfg,      \* the compiled Cc action of the rule: params and on_limit
    table,    \* CcLimiter.table: key -> Entry (NoEntry when absent)
    hist,     \* the completed check calls, in completion order
    pc,       \* per task: its position inside CcLimiter::check
    loc,      \* per task: the locals of its check call (k, now, e)
    rulesFile,     \* the rules file: mtime and whether it compiles
    upstreamFile,  \* upstream.yaml: mtime and whether a router builds from it
    dmFile,        \* the domain map file: mtime, default policy id and one entry
    polDir,        \* the policies directory: signature and its yaml files
    edits,         \* how many times the configuration was edited
    rulesPub,      \* WafEngine.rules: the published ruleset
    routerPub,     \* UpstreamManager.router: the published router
    policyPub,     \* PolicyManager.state: the published PolicyState
    sup,           \* per supervisor: the locals of its loop
    req,           \* one request in flight: its ProxyCtx and its body stream
    enf,           \* the last enforce_request_headers call and its result
    res,           \* a get_policy_for_host call in progress
    dmq,           \* a domain map, a host and the policy id matched for it
    rt,            \* the upstream router: counters, DNS cache and the picks made
    tls,           \* the certificate store and one SNI lookup on it
    crt,           \* the certificate directory, the published snapshot and CertUpdater's locals
    term,          \* the shutdown signal, the supervisors started and those that returned
    pf,            \* one rule of a policy file as written, and what loading it gave
    nrm,           \* a text, its normal form and the normal form of that
    wev,           \* a ruleset, a request and what eval_request_headers returned for them
    chn,           \* one resolve_cname_dns call: the DNS records, the name reached, the lookups made
    prn,           \* one prune_older_than sweep: its now, the keys not yet visited, remove_keys
    rrp,           \* concurrent rr_pick calls on one edge key: the counter, the calls in flight, the picks returned
    kq             \* one limiter key as check builds it: the rule, the values of its key parts, the string

ccVars == <<now, cfg, table, hist, pc, loc>>

reloadVars ==
    <<rulesFile, upstreamFile, dmFile, polDir, edits, rulesPub, routerPub, policyPub, sup>>

bodyVars == <<req>>

vars ==
    <<now, cfg, table, hist, pc, loc,
      rulesFile, upstreamFile, dmFile, polDir, edits, rulesPub, routerPub, policyPub, sup,
      req, enf, res, dmq, rt, tls, crt, term, pf, nrm, wev, chn, prn, rrp, kq>>

\* the components added to the model last
auxVars == <<tls, crt, term, pf, nrm, wev, chn, prn, rrp, kq>>

otherVars == <<enf, res, dmq, rt, auxVars>>

\* what the limiter's actions leave alone, and what the supervisors' do
nonCc == <<reloadVars, bodyVars, otherVars>>
nonReload == <<ccVars, bodyVars, otherVars>>

----------------------------------------------------------------------------
(* Bounds of the model *)

MaxTime == 6
TicksPerSec == 2
MaxCalls == 5
MaxConcCalls == 3
MaxEdits == 1
MaxBody == 4
MaxRequests == 3
MaxHost == 5
MaxPicks == 4
MaxSni == 5
MaxRunning == 2
MaxVariantKeys == 2
MaxAuthority == 5
MaxPath == 6
MaxRules == 3
MaxChain == 3
MaxConcPicks == 4
MaxValue == 3
MaxPairRules == 2

----------------------------------------------------------------------------
(* Helpers *)

Max(a, b) == IF a >= b THEN a ELSE b

\* Option<Instant>::None
None == -1

\* Duration::from_secs
Secs(n) == n * TicksPerSec

\* Instant::duration_since: saturates to zero when `earlier` is later
DurationSince(t, earlier) == IF t >= earlier THEN t - earlier ELSE 0

----------------------------------------------------------------------------
(* CC limiter: policy/cc.rs *)

RuleId == "r1"
Keys == {"k1", "k2"}
Procs == {"t1", "t2"}

\* The Cc actions a policy file can carry (CcSpec has no validation: zero
\* is a legal value of every parameter).
CcConfigs ==
    { [window_secs |-> 1, max_requests |-> 3, block_secs |-> 10,
       on_limit |-> [kind |-> "block", status |-> 429, reason |-> "too many"]],
      [window_secs |-> 0, max_requests |-> 0, block_secs |-> 0,
       on_limit |-> [kind |-> "log", status |-> 0, reason |-> "noted"]],
      [window_secs |-> 1, max_requests |-> 1, block_secs |-> 1,
       on_limit |-> [kind |-> "challenge", status |-> 429, reason |-> "prove"]],
      [window_secs |-> 2, max_requests |-> 2, block_secs |-> 1,
       on_limit |-> [kind |-> "block", status |-> 403, reason |-> "too many"]] }

\* the rule of the spec's scenario 2
ExampleCc ==
    [window_secs |-> 1, max_requests |-> 3, block_secs |-> 10,
     on_limit |-> [kind |-> "block", status |-> 429, reason |-> "too many"]]

NoEntry ==
    [present |-> FALSE, window_start |-> 0, count |-> 0,
     blocked_until |-> None, last_seen |-> 0]

\* Option<CcHit>: None, or Some(CcHit{reason})
NoHit == [kind |-> "none", max |-> 0, window |-> 0, rule |-> ""]
HitBlocked(rule) == [kind |-> "blocked", max |-> 0, window |-> 0, rule |-> rule]
HitExceeded(m, w, rule) == [kind |-> "exceeded", max |-> m, window |-> w, rule |-> rule]

\* self.table.get(&k).map(|v| v.clone()).unwrap_or(Entry{..}); e.last_seen = now
ReadEntry(tbl, k, t) ==
    IF tbl[k].present
    THEN [tbl[k] EXCEPT !.last_seen = t]
    ELSE [present |-> TRUE, window_start |-> t, count |-> 0,
          blocked_until |-> None, last_seen |-> t]

\* a block that ends one tick early
StillBlockedEarly(e, t) == e.blocked_until # None /\ t + 1 < e.blocked_until

\* if now < until: the call answers "cc blocked" and writes e back as read
StillBlocked(e, t) == e.blocked_until # None /\ t < e.blocked_until

\* an expiry that clears the block and keeps the old window and count
ClearExpiredKeepCount(e, t) ==
    IF e.blocked_until # None
    THEN [e EXCEPT !.blocked_until = None]
    ELSE e

\* else branch: the block has expired, reset the window
ClearExpired(e, t) ==
    IF e.blocked_until # None
    THEN [e EXCEPT !.blocked_until = None, !.window_start = t, !.count = 0]
    ELSE e

\* a roll-over that starts a new window and keeps the old count
RollWindowKeepCount(e, t, window) ==
    IF DurationSince(t, e.window_start) >= window
    THEN [e EXCEPT !.window_start = t]
    ELSE e

\* window roll-over
RollWindow(e, t, window) ==
    IF DurationSince(t, e.window_start) >= window
    THEN [e EXCEPT !.window_start = t, !.count = 0]
    ELSE e

\* e.count += 1
Increment(e) == [e EXCEPT !.count = e.count + 1]

\* a limit that trips on the max_requests-th call
ExceedsAtMax(count, max_req) == count >= max_req

\* if e.count > max_req
Exceeds(count, max_req) == count > max_req

\* The body of check after the read: the entry to insert and the result.
CheckOutcome(e, t, p, rule) ==
    LET window    == Secs(Max(p.window_secs, 1))
        block_for == Secs(Max(p.block_secs, 1))
        max_req   == Max(p.max_requests, 1)
    IN  IF StillBlocked(e, t)
        THEN [entry |-> e, hit |-> HitBlocked(rule)]
        ELSE LET e3 == Increment(RollWindow(ClearExpired(e, t), t, window))
             IN  IF Exceeds(e3.count, max_req)
                 THEN [entry |-> [e3 EXCEPT !.blocked_until = t + block_for],
                       hit |-> HitExceeded(max_req, p.window_secs, rule)]
                 ELSE [entry |-> e3, hit |-> NoHit]

\* Decision values (waf/decision.rs)
Allow == [kind |-> "allow", status |-> 0, rule_id |-> "", hit |-> NoHit, reason |-> ""]

\* an exec_action whose on_limit Log stops the request like the fallback arm
ExecCcLogStops(rule, c, hit) ==
    IF hit.kind = "none" THEN Allow
    ELSE [kind |-> IF c.on_limit.kind = "log" THEN "block" ELSE c.on_limit.kind,
          status |-> IF c.on_limit.kind = "log" THEN 429 ELSE c.on_limit.status,
          rule_id |-> rule, hit |-> hit, reason |-> c.on_limit.reason]

\* an exec_action whose terminal reason leaves the limiter's reason out
ExecCcWithoutHitReason(rule, c, hit) ==
    IF hit.kind = "none" THEN Allow
    ELSE IF c.on_limit.kind = "log" THEN Allow
    ELSE [kind |-> c.on_limit.kind, status |-> c.on_limit.status,
          rule_id |-> rule, hit |-> NoHit, reason |-> c.on_limit.reason]

\* exec_action for CompiledAction::Cc, given the limiter's answer: in a
\* terminal decision, hit and reason are the two parts of
\* format!("{}; {}", hit.reason, reason)
ExecCc(rule, c, hit) ==
    IF hit.kind = "none" THEN Allow
    ELSE IF c.on_limit.kind = "log" THEN Allow
    ELSE [kind |-> c.on_limit.kind, status |-> c.on_limit.status,
          rule_id |-> rule, hit |-> hit, reason |-> c.on_limit.reason]

CallRecord(k, t, before, out) ==
    [key |-> k, at |-> t, before |-> before, after |-> out.entry, hit |-> out.hit,
     decision |-> ExecCc(RuleId, cfg, out.hit)]

IdleLoc == [key |-> "k1", now |-> 0, seen |-> NoEntry, e |-> NoEntry]

----------------------------------------------------------------------------
(* Configuration files and the published snapshots *)

Sups == {"rules", "upstream", "domain_map", "policies"}

PolicyIds == {"pd", "p1"}

\* the policy ids the domain map can name for the host it has an entry for
EntryIds == {"p1", "px"}

\* PolicyManager::load_from_files: Arc::new(CcLimiter::new())
NewCc == "cc_new"
\* the limiter of the state main() publishes first
InitialCc == "cc_initial"

\* An attempt's results
Ok(v) == [ok |-> TRUE, err |-> "", val |-> v]
Err(e) == [ok |-> FALSE, err |-> e, val |-> 0]

\* load_and_compile_policies_dir: every yaml file of the directory is read,
\* parsed and compiled; the first error ends the load.
BadPolicyState ==
    [default |-> "", entry |-> "", dmver |-> 0, policies |-> {}, listed |-> {}, cc |-> ""]

\* a load that skips the files that do not compile
LoadAndCompileSkippingBad(dir, readOk) ==
    LET listed == {f \in PolicyIds : dir.files[f] # "absent"}
    IN  IF ~readOk THEN Err("io")
        ELSE Ok([policies |-> {f \in listed : dir.files[f] = "good"}, listed |-> listed])

LoadAndCompilePoliciesDir(dir, readOk) ==
    LET listed == {f \in PolicyIds : dir.files[f] # "absent"}
    IN  IF ~readOk THEN Err("io")
        ELSE IF \E f \in listed : dir.files[f] = "bad" THEN Err("parse")
        ELSE Ok([policies |-> listed, listed |-> listed])

\* a load_from_files that does not look for the default policy
LoadFromFilesUnchecked(dm, dir, dmReadOk, dirReadOk) ==
    IF ~dmReadOk THEN Err("io")
    ELSE IF dm.default = "bad" THEN Err("parse")
    ELSE LET ps == LoadAndCompilePoliciesDir(dir, dirReadOk)
         IN  IF ~ps.ok THEN ps
             ELSE Ok([default |-> dm.default, entry |-> dm.entry, dmver |-> dm.mtime,
                      policies |-> ps.val.policies, listed |-> ps.val.listed,
                      cc |-> NewCc])

\* PolicyManager::load_from_files
LoadFromFiles(dm, dir, dmReadOk, dirReadOk) ==
    IF ~dmReadOk THEN Err("io")
    ELSE IF dm.default = "bad" THEN Err("parse")
    ELSE LET ps == LoadAndCompilePoliciesDir(dir, dirReadOk)
         IN  IF ~ps.ok THEN ps
             ELSE IF dm.default \notin ps.val.policies THEN Err("no_default")
             ELSE Ok([default |-> dm.default, entry |-> dm.entry, dmver |-> dm.mtime,
                      policies |-> ps.val.policies, listed |-> ps.val.listed,
                      cc |-> NewCc])

\* a merge that keeps the limiter of the freshly loaded state
MergeKeepNew(new_state, old) == new_state

\* PolicyState { matcher: new_state.matcher, policies: new_state.policies, cc: old.cc.clone() }
Merge(new_state, old) == [new_state EXCEPT !.cc = old.cc]

\* compile_from_file / read + from_slice + UpstreamRouter::new
BuildFromFile(file, readOk) ==
    IF ~readOk THEN Err("io")
    ELSE IF ~file.good THEN Err("parse")
    ELSE Ok(file.mtime)

\* last_mtime.map(|x| x >= mtime).unwrap_or(false)
NotNewer(last, mtime) == last # None /\ last >= mtime

\* last_sig.map(|x| x == sig).unwrap_or(false)
SameSig(last, sig) == last # None /\ last = sig

IdleSup == [last |-> None, outcome |-> "none", pending |-> BadPolicyState]

InitialFile == [mtime |-> 0, good |-> TRUE]
InitialDm == [mtime |-> 0, default |-> "pd", entry |-> "p1"]
InitialDir == [sig |-> 0, files |-> [f \in PolicyIds |-> "good"]]

\* the state main() builds before the supervisors start
FilesIdle ==
    /\ rulesFile = InitialFile
    /\ upstreamFile = InitialFile
    /\ dmFile = InitialDm
    /\ polDir = InitialDir
    /\ edits = 0
    /\ routerPub = 0
    /\ policyPub = [LoadFromFiles(InitialDm, InitialDir, TRUE, TRUE).val EXCEPT !.cc = InitialCc]
    /\ sup = [s \in Sups |-> IdleSup]

\* ... with the ruleset compiled from the initial rules file
ReloadIdle == FilesIdle /\ rulesPub = 0

----------------------------------------------------------------------------
(* WAF rules and the multi-pattern matcher: waf/rules, waf/engine.rs *)

\* Bytes are one-letter strings; a text is a sequence of bytes.
Bytes == {"a", "b", "A"}

\* ASCII lower-casing of one byte
Lower(c) == IF c = "A" THEN "a" ELSE IF c = "B" THEN "b" ELSE c

LowerAll(t) == [i \in 1..Len(t) |-> Lower(t[i])]

\* pattern p occurs in hay at offset i, ASCII case-insensitively
OccursAt(p, hay, i) == \A j \in 1..Len(p) : Lower(hay[i + j - 1]) = Lower(p[j])

\* AcMatcher::is_match
AcIsMatch(pats, hay) ==
    \E p \in pats : \E i \in 1..(Len(hay) - Len(p) + 1) : OccursAt(p, hay, i)

\* AcMatcher::new: max_pat_len
MaxPatLen(pats) ==
    IF pats = {} THEN 0
    ELSE CHOOSE n \in {Len(p) : p \in pats} : \A p \in pats : Len(p) <= n

\* Option<Vec<..>> / Option<AcMatcher>
Absent == [some |-> FALSE, v |-> {}]
Some(v) == [some |-> TRUE, v |-> v]

StartsWith(t, p) == Len(p) <= Len(t) /\ SubSeq(t, 1, Len(p)) = p

\* a keep length one byte short of what a straddling match needs
BodyKeepLenShort(rule) ==
    IF rule.body_ac.some THEN Max(MaxPatLen(rule.body_ac.v) - 2, 0) ELSE 0

\* CompiledRule::body_keep_len: max_pat_len().saturating_sub(1), or 0
BodyKeepLen(rule) ==
    IF rule.body_ac.some THEN Max(MaxPatLen(rule.body_ac.v) - 1, 0) ELSE 0

\* CompiledRule::body_match
BodyMatch(rule, window) == rule.body_ac.some /\ AcIsMatch(rule.body_ac.v, window)

\* CompiledRule::action_to_decision
ActionToDecision(rule) ==
    IF rule.action = "allow" THEN Allow
    ELSE [kind |-> rule.action, status |-> 403, rule_id |-> rule.id, hit |-> NoHit,
          reason |-> IF rule.action = "block" THEN "matched" ELSE "challenge"]

IsTerminal(d) == d.kind \in {"block", "challenge"}

\* The rulesets the rules file can hold (CompiledRuleset.rules)
Rulesets ==
    << << [id |-> "r1", action |-> "block", methods |-> Absent,
           path_prefix |-> Some({<<"/">>}), uri_ac |-> Absent,
           body_ac |-> Some({<<"a", "b">>})] >>,
       << [id |-> "r2", action |-> "block", methods |-> Some({"POST"}),
           path_prefix |-> Absent, uri_ac |-> Absent,
           body_ac |-> Some({<<"b", "A", "b">>})],
          [id |-> "r3", action |-> "block", methods |-> Absent,
           path_prefix |-> Absent, uri_ac |-> Some({<<"/", "A">>}),
           body_ac |-> Some({<<"B", "B">>, <<"a", "a", "a">>})] >>,
       << [id |-> "r4", action |-> "allow", methods |-> Some({"GET"}),
           path_prefix |-> Some({<<"/", "b">>}), uri_ac |-> Absent,
           body_ac |-> Absent],
          [id |-> "r5", action |-> "block", methods |-> Absent,
           path_prefix |-> Absent, uri_ac |-> Absent,
           body_ac |-> Some({<<"a">>})],
          [id |-> "r6", action |-> "challenge", methods |-> Some({"GET"}),
           path_prefix |-> Absent, uri_ac |-> Absent,
           body_ac |-> Absent] >> >>

RulesetIds == 1..Len(Rulesets)

\* WafContext: method and path of the request
Contexts ==
    { [method |-> "GET", path |-> <<"/", "a">>],
      [method |-> "POST", path |-> <<"/", "a">>],
      [method |-> "GET", path |-> <<"/", "b">>] }

\* Regex::is_match for the patterns the rules carry: an unanchored pattern
\* matches any value that contains it
RegexIsMatch(pattern, value) ==
    CASE pattern = "bot" -> value \in {"bot", "robot"}
      [] pattern = "^curl$" -> value = "curl"
      [] OTHER -> FALSE

\* header conditions that also require every header_regex matcher to match
\* the request's header of that name
HeadersPassWithRegex(rule, ctx) ==
    /\ rule.methods.some => ctx.method \in rule.methods.v
    /\ rule.path_prefix.some => \E p \in rule.path_prefix.v : StartsWith(ctx.path, p)
    /\ rule.uri_ac.some => AcIsMatch(rule.uri_ac.v, ctx.path)
    /\ \A i \in 1..Len(rule.header_regex) :
          /\ rule.header_regex[i].name = "user-agent"
          /\ ctx.user_agent.some
          /\ \E v \in ctx.user_agent.v : RegexIsMatch(rule.header_regex[i].re, v)

\* the header conditions of one rule (methods, path_prefix, uri_ac)
HeadersPass(rule, ctx) ==
    /\ rule.methods.some => ctx.method \in rule.methods.v
    /\ rule.path_prefix.some => \E p \in rule.path_prefix.v : StartsWith(ctx.path, p)
    /\ rule.uri_ac.some => AcIsMatch(rule.uri_ac.v, ctx.path)

\* a loop in which a passing allow rule does not end the evaluation
RECURSIVE EvalFromAllowContinues(_, _, _, _)
EvalFromAllowContinues(rules, ctx, i, acc) ==
    IF i > Len(rules)
    THEN [decision |-> Allow, req_body_rules |-> acc, resp_body_rules |-> acc]
    ELSE IF ~HeadersPass(rules[i], ctx)
    THEN EvalFromAllowContinues(rules, ctx, i + 1, acc)
    ELSE IF rules[i].body_ac.some
    THEN EvalFromAllowContinues(rules, ctx, i + 1, Append(acc, i))
    ELSE IF rules[i].action = "allow"
    THEN EvalFromAllowContinues(rules, ctx, i + 1, acc)
    ELSE [decision |-> ActionToDecision(rules[i]),
          req_body_rules |-> acc, resp_body_rules |-> acc]

\* the loop of eval_request_headers from rule i on (rules are numbered from 1)
RECURSIVE EvalFrom(_, _, _, _)
EvalFrom(rules, ctx, i, acc) ==
    IF i > Len(rules)
    THEN [decision |-> Allow, req_body_rules |-> acc, resp_body_rules |-> acc]
    ELSE IF ~HeadersPass(rules[i], ctx)
    THEN EvalFrom(rules, ctx, i + 1, acc)
    ELSE IF rules[i].body_ac.some
    THEN EvalFrom(rules, ctx, i + 1, Append(acc, i))
    ELSE [decision |-> ActionToDecision(rules[i]),
          req_body_rules |-> acc, resp_body_rules |-> acc]

\* WafEngine::eval_request_headers on the snapshot rs
EvalRequestHeaders(rs, ctx) == EvalFrom(rs, ctx, 1, <<>>)

\* ProxyCtx::default(), before the request arrives
NewReq(ctx, body) ==
    [phase |-> "new", ctx |-> ctx, rest |-> body, seen |-> <<>>, nchunks |-> 0,
     hdrSnap |-> 0, bodySnap |-> 0, decision |-> Allow,
     req_body_rules |-> <<>>, resp_body_rules |-> <<>>,
     req_tail |-> <<>>, blocked |-> FALSE,
     forwarded |-> <<>>,
     resp_rest |-> <<>>, resp_seen |-> <<>>, resp_tail |-> <<>>,
     respSnap |-> 0, delivered |-> <<>>]

BodyIdle == req = NewReq([method |-> "GET", path |-> <<"/", "a">>], <<>>)

\* the other components before any call is made
IdleEnf ==
    [n |-> 0, policy |-> [id |-> "", waf_enabled |-> FALSE, precise |-> <<>>, base |-> <<>>],
     ctx |-> [method |-> "", path |-> <<>>, host |-> "", headers |-> <<>>], before |-> <<>>,
     decision |-> Allow, req_body_rules |-> <<>>, resp_body_rules |-> <<>>,
     stages |-> <<>>, precise |-> <<>>, base |-> <<>>]
IdleRes == [phase |-> "idle", host |-> "", st |-> BadPolicyState, result |-> ""]
IdleDmq ==
    [phase |-> "new", file |-> [domains |-> <<>>, default_policy |-> ""],
     matcher |-> [exact |-> <<>>, wildcard_suffix |-> <<>>, default_policy |-> ""],
     host |-> <<>>, result |-> ""]
IdleRt == [cfg |-> "static", routers |-> <<>>, picks |-> <<>>]

IdleTls == [phase |-> "idle", snap |-> [exact |-> {}, wildcard |-> {}], sni |-> <<>>, result |-> ""]

\* the certificate directory as CertStore::load found it, and CertUpdater
\* before its first tick: last_fp = self.store.fingerprint()
IdleCs == [fp |-> 0, pub |-> 0, last_fp |-> 0, outcome |-> "none"]

IdleTerm == [signal |-> FALSE, running |-> {}, stopped |-> {}]

IdlePf ==
    [phase |-> "idle", match_present |-> FALSE, match_keys |-> {}, action_keys |-> {},
     result |-> [ok |-> FALSE, err |-> "", val |-> 0]]

IdleNrm == [phase |-> "idle", input |-> <<>>, once |-> <<>>, twice |-> <<>>]

IdleWev ==
    [phase |-> "idle", rules |-> <<>>, ctx |-> [method |-> "", path |-> <<>>],
     out |-> [decision |-> Allow, req_body_rules |-> <<>>, resp_body_rules |-> <<>>]]

IdleChn ==
    [phase |-> "idle", graph |-> <<>>, host |-> <<>>, limit |-> 0, cur |-> <<>>,
     lookups |-> 0, result |-> "none", name |-> <<>>]

IdlePrn ==
    [phase |-> "idle", now |-> 0, older_than |-> 0, unvisited |-> {}, remove_keys |-> {}]

\* the request tasks that pick concurrently
PickTasks == {"q1", "q2", "q3"}

NotPicking == [busy |-> FALSE, value |-> 0, upstream |-> ""]

IdleRrp == [ups |-> <<>>, counter |-> 0, flight |-> [q \in PickTasks |-> NotPicking], done |-> <<>>]

IdleKq == [phase |-> "idle", rule |-> <<>>, parts |-> <<>>, headers |-> <<>>, key |-> <<>>]

AuxIdle == tls = IdleTls /\ crt = IdleCs /\ term = IdleTerm /\ pf = IdlePf /\ nrm = IdleNrm /\ wev = IdleWev /\ chn = IdleChn /\ prn = IdlePrn /\ rrp = IdleRrp /\ kq = IdleKq

OtherIdle == enf = IdleEnf /\ res = IdleRes /\ dmq = IdleDmq /\ rt = IdleRt /\ AuxIdle

CcIdle ==
    /\ now = 0
    /\ cfg = ExampleCc
    /\ table = [k \in Keys |-> NoEntry]
    /\ hist = <<>>
    /\ pc = [p \in Procs |-> "idle"]
    /\ loc = [p \in Procs |-> IdleLoc]

InitCc ==
    /\ ReloadIdle
    /\ BodyIdle
    /\ OtherIdle
    /\ now = 0
    /\ cfg \in CcConfigs
    /\ table = [k \in Keys |-> NoEntry]
    /\ hist = <<>>
    /\ pc = [p \in Procs |-> "idle"]
    /\ loc = [p \in Procs |-> IdleLoc]

\* time passes
Tick ==
    /\ now < MaxTime
    /\ now' = now + 1
    /\ UNCHANGED <<cfg, table, hist, pc, loc>>
    /\ UNCHANGED nonCc

\* One whole check call with no other call in flight, made through
\* exec_action by a request whose key body is k.
Check(k) ==
    /\ Len(hist) < MaxCalls
    /\ LET e   == ReadEntry(table, k, now)
           out == CheckOutcome(e, now, cfg, RuleId)
       IN  /\ table' = [table EXCEPT ![k] = out.entry]
           /\ hist' = Append(hist, CallRecord(k, now, table[k], out))
    /\ UNCHANGED <<now, cfg, pc, loc>>
    /\ UNCHANGED nonCc

NextCc ==
    \/ Tick
    \/ \E k \in Keys : Check(k)

SpecCc == InitCc /\ [][NextCc]_vars

----------------------------------------------------------------------------
(* Properties of sequential check calls (SpecCc) *)

\* the parameters as check uses them (clamped to a minimum of 1)
EffWindow == Secs(Max(cfg.window_secs, 1))
EffBlock == Secs(Max(cfg.block_secs, 1))
EffMax == Max(cfg.max_requests, 1)

\* the completed calls of key k, in order
KeyCalls(k) ==
    LET IsK(r) == r.key = k
    IN  SelectSeq(hist, IsK)

\* calls 1..n of cs all fall inside the window opened by the first call
InOneWindow(cs, n) == \A j \in 1..n : cs[j].at - cs[1].at < EffWindow

WasBlocked(r) == r.before.present /\ r.before.blocked_until # None /\ r.at < r.before.blocked_until

WasExpired(r) == r.before.present /\ r.before.blocked_until # None /\ r.at >= r.before.blocked_until

\* C2: a check call that finds its entry blocked (blocked_until set and
\* now < blocked_until) returns the hit "cc blocked: <rule_id>" and leaves
\* count, window_start and blocked_until as they were; only last_seen moves.
C2_BlockedCallChangesNothing ==
    \A i \in 1..Len(hist) :
        WasBlocked(hist[i]) =>
            /\ hist[i].hit = HitBlocked(RuleId)
            /\ hist[i].after.count = hist[i].before.count
            /\ hist[i].after.window_start = hist[i].before.window_start
            /\ hist[i].after.blocked_until = hist[i].before.blocked_until
            /\ hist[i].after.last_seen = hist[i].at

C2_Witness ==
    \E i \in 1..Len(hist) :
        /\ WasBlocked(hist[i])
        /\ hist[i].at > hist[i].before.last_seen
        /\ table[hist[i].key] = hist[i].after

\* C3: sequential calls on one key inside a single window, starting from
\* no entry: calls 1..max_requests return no hit, call max_requests+1
\* returns the hit "cc exceeded <max> req/<window>s on <rule_id>" and sets
\* blocked_until = now + block_secs; so any max_requests + k calls (k >= 1)
\* in one window contain a hit.  max_requests and block_secs are the values
\* check works with (clamped to a minimum of 1); the reason prints the
\* clamped max and the configured window_secs.
C3_LimitReachedAfterMax ==
    \A k \in Keys :
        LET cs == KeyCalls(k)
        IN  \A n \in 1..Len(cs) :
                InOneWindow(cs, n) =>
                    /\ n <= EffMax => cs[n].hit = NoHit
                    /\ n = EffMax + 1 =>
                          /\ cs[n].hit = HitExceeded(EffMax, cfg.window_secs, RuleId)
                          /\ cs[n].after.blocked_until = cs[n].at + EffBlock
                    /\ n > EffMax => \E j \in 1..n : cs[j].hit # NoHit

C3_Witness ==
    \E k \in Keys :
        LET cs == KeyCalls(k)
        IN  /\ Len(cs) >= EffMax + 2
            /\ InOneWindow(cs, Len(cs))
            /\ cs[EffMax + 1].hit.kind = "exceeded"
            /\ cs[Len(cs)].at > cs[1].at

IsBlock429(d) == d.kind = "block" /\ d.status = 429

\* the decision's reason contains "cc exceeded <m> req/<w>s"
ReasonHasExceeded(d, m, w) == d.hit.kind = "exceeded" /\ d.hit.max = m /\ d.hit.window = w

\* the decision's reason starts with "cc blocked:"
ReasonHasBlocked(d) == d.hit.kind = "blocked"

\* C4 as stated: with the example rule (1 s, 3 requests, block 10 s,
\* on_limit block/429) five requests for one key in one window give Allow,
\* Allow, Allow, then Block 429 twice, both with a reason containing
\* "cc exceeded 3 req/1s"; and every request rejected in the burst carries
\* the "cc exceeded" reason.
C4_Original ==
    \A k \in Keys :
        LET cs == KeyCalls(k)
        IN  \A n \in 1..Len(cs) :
                InOneWindow(cs, n) =>
                    /\ (cfg = ExampleCc /\ n <= 3) => cs[n].decision = Allow
                    /\ (cfg = ExampleCc /\ n \in {4, 5}) =>
                          /\ IsBlock429(cs[n].decision)
                          /\ ReasonHasExceeded(cs[n].decision, 3, 1)
                    /\ cs[n].decision.kind # "allow" =>
                          cs[n].decision.hit.kind = "exceeded"

\* C4 amended: with the example rule the first three requests are allowed
\* and the fourth and fifth are blocked with 429; the fourth's reason
\* contains "cc exceeded 3 req/1s" and the fifth's starts with
\* "cc blocked:".  In general only the request that takes the count past
\* the limit carries "cc exceeded", every request that finds the entry
\* blocked carries "cc blocked:", and a terminal decision has the
\* on_limit kind and status and the rule's id.
C4_Amended ==
    /\ \A k \in Keys :
        LET cs == KeyCalls(k)
        IN  \A n \in 1..Len(cs) :
                (cfg = ExampleCc /\ InOneWindow(cs, n)) =>
                    /\ n <= 3 => cs[n].decision = Allow
                    /\ n = 4 =>
                          /\ IsBlock429(cs[n].decision)
                          /\ ReasonHasExceeded(cs[n].decision, 3, 1)
                    /\ n = 5 =>
                          /\ IsBlock429(cs[n].decision)
                          /\ ReasonHasBlocked(cs[n].decision)
    /\ \A i \in 1..Len(hist) :
        /\ hist[i].hit.kind = "exceeded" <=>
              (~WasBlocked(hist[i]) /\ hist[i].after.count = EffMax + 1)
        /\ hist[i].hit.kind = "blocked" <=> WasBlocked(hist[i])
        /\ hist[i].decision.kind # "allow" =>
              /\ hist[i].decision.kind = cfg.on_limit.kind
              /\ hist[i].decision.status = cfg.on_limit.status
              /\ hist[i].decision.rule_id = RuleId
              /\ hist[i].decision.hit = hist[i].hit
              /\ hist[i].decision.reason = cfg.on_limit.reason
        /\ hist[i].decision.kind = "allow" <=>
              (hist[i].hit = NoHit \/ cfg.on_limit.kind = "log")

C4_Witness ==
    /\ cfg = ExampleCc
    /\ \E k \in Keys :
        LET cs == KeyCalls(k)
        IN  /\ Len(cs) = 5
            /\ InOneWindow(cs, 5)
            /\ ReasonHasBlocked(cs[5].decision)
            /\ IsBlock429(cs[5].decision)

\* C5: the first check call made at or after blocked_until clears the
\* block, restarts the window at now with count 0, counts itself and
\* returns no hit: the entry is left with count = 1 and no blocked_until.
\* So the first call of a key that comes block_secs or more after the call
\* that set a block is not a hit, however many calls came in between.
C5_BlockExpires ==
    /\ \A i \in 1..Len(hist) :
        WasExpired(hist[i]) =>
            /\ hist[i].hit = NoHit
            /\ hist[i].after.count = 1
            /\ hist[i].after.blocked_until = None
            /\ hist[i].after.window_start = hist[i].at
    /\ \A i \in 1..Len(hist) : \A j \in (i + 1)..Len(hist) :
        (/\ hist[i].hit.kind = "exceeded"
         /\ hist[j].key = hist[i].key
         /\ hist[j].at >= hist[i].at + EffBlock
         /\ \A m \in (i + 1)..(j - 1) :
               hist[m].key = hist[i].key => hist[m].at < hist[i].at + EffBlock)
        => hist[j].hit = NoHit

C5_Witness ==
    \E i \in 1..Len(hist) : \E m \in (i + 1)..Len(hist) : \E j \in (m + 1)..Len(hist) :
        /\ hist[i].hit.kind = "exceeded"
        /\ hist[m].key = hist[i].key /\ hist[m].hit.kind = "blocked"
        /\ hist[j].key = hist[i].key /\ WasExpired(hist[j])
        /\ hist[j].hit = NoHit
        /\ table[hist[j].key].blocked_until = None


----------------------------------------------------------------------------
(* Concurrent check calls: the read (table.get ... clone) and the write    *)
(* (table.insert) of one call are two map operations; the shard lock is    *)
(* held during each and released in between.                               *)

InFlight == Cardinality({p \in Procs : pc[p] = "read"})

\* let now = Instant::now(); let mut e = self.table.get(&k)...; e.last_seen = now
CheckRead(p, k) ==
    /\ pc[p] = "idle"
    /\ Len(hist) + InFlight < MaxConcCalls
    /\ loc' = [loc EXCEPT ![p] = [key |-> k, now |-> now, seen |-> table[k],
                                  e |-> ReadEntry(table, k, now)]]
    /\ pc' = [pc EXCEPT ![p] = "read"]
    /\ UNCHANGED <<now, cfg, table, hist>>
    /\ UNCHANGED nonCc

\* the rest of check: decide on the local copy, self.table.insert(k, e), return
CheckWrite(p) ==
    /\ pc[p] = "read"
    /\ LET out == CheckOutcome(loc[p].e, loc[p].now, cfg, RuleId)
       IN  /\ table' = [table EXCEPT ![loc[p].key] = out.entry]
           /\ hist' = Append(hist, CallRecord(loc[p].key, loc[p].now, loc[p].seen, out))
    /\ pc' = [pc EXCEPT ![p] = "idle"]
    /\ loc' = [loc EXCEPT ![p] = IdleLoc]
    /\ UNCHANGED <<now, cfg>>
    /\ UNCHANGED nonCc

NextCcConc ==
    \/ Tick
    \/ \E p \in Procs : \E k \in Keys : CheckRead(p, k)
    \/ \E p \in Procs : CheckWrite(p)

SpecCcConc == InitCc /\ [][NextCcConc]_vars

\* the orders in which n calls can run one after the other
Orders(n) == {f \in [1..n -> 1..n] : \A a, b \in 1..n : f[a] = f[b] => a = b}

\* whether running the calls hist[order[i]], hist[order[i+1]], ... one at a
\* time from table tbl gives each call the result it got and ends in final
RECURSIVE ReplayGives(_, _, _, _)
ReplayGives(order, i, tbl, final) ==
    IF i > Len(hist)
    THEN tbl = final
    ELSE LET r   == hist[order[i]]
             out == CheckOutcome(ReadEntry(tbl, r.key, r.at), r.at, cfg, RuleId)
         IN  /\ out.hit = r.hit
             /\ ReplayGives(order, i + 1, [tbl EXCEPT ![r.key] = out.entry], final)

\* C1: concurrent check calls on one key are atomic read-modify-writes: once
\* all calls have returned, the table and the results of the calls are those
\* of some serial order of the same calls.
C1_Serializable ==
    (\A p \in Procs : pc[p] = "idle") =>
        \E order \in Orders(Len(hist)) :
            ReplayGives(order, 1, [k \in Keys |-> NoEntry], table)


----------------------------------------------------------------------------
(* Reload supervisors: waf/update.rs, upstream/update.rs, policy/update.rs *)

\* the operator edits a configuration file (its mtime moves forward)
EditRules(good) ==
    /\ edits < MaxEdits
    /\ rulesFile' = [mtime |-> rulesFile.mtime + 1, good |-> good]
    /\ edits' = edits + 1
    /\ UNCHANGED <<upstreamFile, dmFile, polDir, rulesPub, routerPub, policyPub, sup>>
    /\ UNCHANGED nonReload

EditUpstream(good) ==
    /\ edits < MaxEdits
    /\ upstreamFile' = [mtime |-> upstreamFile.mtime + 1, good |-> good]
    /\ edits' = edits + 1
    /\ UNCHANGED <<rulesFile, dmFile, polDir, rulesPub, routerPub, policyPub, sup>>
    /\ UNCHANGED nonReload

EditDomainMap(d, e) ==
    /\ edits < MaxEdits
    /\ dmFile' = [mtime |-> dmFile.mtime + 1, default |-> d, entry |-> e]
    /\ edits' = edits + 1
    /\ UNCHANGED <<rulesFile, upstreamFile, polDir, rulesPub, routerPub, policyPub, sup>>
    /\ UNCHANGED nonReload

\* a policy file is added, removed or rewritten (the signature changes)
EditPolicies(f, st) ==
    /\ edits < MaxEdits
    /\ polDir.files[f] # st
    /\ polDir' = [sig |-> polDir.sig + 1, files |-> [polDir.files EXCEPT ![f] = st]]
    /\ edits' = edits + 1
    /\ UNCHANGED <<rulesFile, upstreamFile, dmFile, rulesPub, routerPub, policyPub, sup>>
    /\ UNCHANGED nonReload

\* match ... { Ok(new) => swap(new), Err(e) => log }
KeepOnError(r, old) == IF r.ok THEN r.val ELSE old

\* One tick of RuleUpdater / UpstreamUpdater on `file`: the supervisor's new
\* locals and the snapshot its cell holds afterwards.
FileTick(me, file, pub, metaOk, readOk) ==
    IF ~metaOk
    THEN [sup |-> [me EXCEPT !.outcome = "meta_error"], pub |-> pub]
    ELSE IF NotNewer(me.last, file.mtime)
    THEN [sup |-> [me EXCEPT !.outcome = "unchanged"], pub |-> pub]
    ELSE LET r == BuildFromFile(file, readOk)
         IN  [sup |-> [me EXCEPT !.last = file.mtime,
                                 !.outcome = IF r.ok THEN "ok" ELSE r.err],
              pub |-> KeepOnError(r, pub)]

\* RuleUpdater::start, one ticker.tick() arm
RuleTick ==
    \E metaOk, readOk \in BOOLEAN :
        LET t == FileTick(sup["rules"], rulesFile, rulesPub, metaOk, readOk)
        IN  /\ sup' = [sup EXCEPT !["rules"] = t.sup]
            /\ rulesPub' = t.pub
            /\ UNCHANGED <<rulesFile, upstreamFile, dmFile, polDir, edits, routerPub, policyPub>>
            /\ UNCHANGED nonReload

\* UpstreamUpdater::start, one ticker.tick() arm
UpstreamTick ==
    \E metaOk, readOk \in BOOLEAN :
        LET t == FileTick(sup["upstream"], upstreamFile, routerPub, metaOk, readOk)
        IN  /\ sup' = [sup EXCEPT !["upstream"] = t.sup]
            /\ routerPub' = t.pub
            /\ UNCHANGED <<rulesFile, upstreamFile, dmFile, polDir, edits, rulesPub, policyPub>>
            /\ UNCHANGED nonReload

\* One tick of a policy supervisor up to the end of load_from_files: `stale`
\* is its change test on `stamp` (the mtime or the directory signature).
PolicyTick(me, stamp, stale, metaOk, dmReadOk, dirReadOk) ==
    IF ~metaOk
    THEN [me EXCEPT !.outcome = "meta_error"]
    ELSE IF stale
    THEN [me EXCEPT !.outcome = "unchanged"]
    ELSE LET r == LoadFromFiles(dmFile, polDir, dmReadOk, dirReadOk)
         IN  IF r.ok
             THEN [last |-> stamp, outcome |-> "loaded", pending |-> r.val]
             ELSE [last |-> stamp, outcome |-> r.err, pending |-> BadPolicyState]

\* DomainMapUpdater::start, one ticker.tick() arm up to Ok(new_state)
DomainMapTick ==
    /\ sup["domain_map"].outcome # "loaded"
    /\ \E metaOk, dmReadOk, dirReadOk \in BOOLEAN :
        sup' = [sup EXCEPT !["domain_map"] =
                   PolicyTick(@, dmFile.mtime, NotNewer(@.last, dmFile.mtime),
                              metaOk, dmReadOk, dirReadOk)]
    /\ UNCHANGED <<rulesFile, upstreamFile, dmFile, polDir, edits, rulesPub, routerPub, policyPub>>
    /\ UNCHANGED nonReload

\* PolicyDirUpdater::start, one ticker.tick() arm up to Ok(new_state)
PolicyDirTick ==
    /\ sup["policies"].outcome # "loaded"
    /\ \E metaOk, dmReadOk, dirReadOk \in BOOLEAN :
        sup' = [sup EXCEPT !["policies"] =
                   PolicyTick(@, polDir.sig, SameSig(@.last, polDir.sig),
                              metaOk, dmReadOk, dirReadOk)]
    /\ UNCHANGED <<rulesFile, upstreamFile, dmFile, polDir, edits, rulesPub, routerPub, policyPub>>
    /\ UNCHANGED nonReload

\* let old = self.mgr.load(); let merged = PolicyState{..}; self.mgr.swap(merged)
PolicySwap(s) ==
    /\ sup[s].outcome = "loaded"
    /\ policyPub' = Merge(sup[s].pending, policyPub)
    /\ sup' = [sup EXCEPT ![s].outcome = "ok", ![s].pending = BadPolicyState]
    /\ UNCHANGED <<rulesFile, upstreamFile, dmFile, polDir, edits, rulesPub, routerPub>>
    /\ UNCHANGED nonReload

InitReload == CcIdle /\ ReloadIdle /\ BodyIdle /\ OtherIdle

NextReload ==
    \/ \E good \in BOOLEAN : EditRules(good)
    \/ \E good \in BOOLEAN : EditUpstream(good)
    \/ \E d \in PolicyIds \cup {"bad"} : EditDomainMap(d, InitialDm.entry)
    \/ \E f \in PolicyIds : \E st \in {"absent", "good", "bad"} : EditPolicies(f, st)
    \/ RuleTick
    \/ UpstreamTick
    \/ DomainMapTick
    \/ PolicyDirTick
    \/ \E s \in {"domain_map", "policies"} : PolicySwap(s)

SpecReload == InitReload /\ [][NextReload]_vars


----------------------------------------------------------------------------
(* Properties of the reload supervisors (SpecReload) *)

published == <<rulesPub, routerPub, policyPub>>

FailedOutcomes == {"meta_error", "io", "parse", "no_default"}

\* supervisor s has just gone through one arm of its loop
Stepped(s) == sup'[s] # sup[s]

\* C6: whatever the sequence and interleaving of reloads by DomainMapUpdater
\* and PolicyDirUpdater, successful or failed, the published PolicyState
\* holds the CcLimiter object of the initially published state (the object
\* that owns every limiter entry).
C6_LimiterIdentityKept == policyPub.cc = InitialCc

C6_Witness ==
    /\ sup["domain_map"].outcome = "ok"
    /\ sup["policies"].outcome = "ok"
    /\ policyPub.dmver # 0
    /\ policyPub.cc = InitialCc

\* C8: a reload attempt that fails (file unreadable, parse or compile
\* error, missing default policy) publishes nothing: the rules, router and
\* policy snapshots are the ones published before it; and a published
\* policy state always holds every yaml file of the directory it was
\* loaded from, with the default policy among them.
C8_FailedReloadPublishesNothing ==
    /\ [](/\ policyPub.policies = policyPub.listed
          /\ policyPub.default \in policyPub.policies)
    /\ [][\A s \in Sups :
            (Stepped(s) /\ sup'[s].outcome \in FailedOutcomes) => published' = published]_vars

C8_Witness ==
    /\ \E f \in PolicyIds : polDir.files[f] = "bad"
    /\ \E f \in PolicyIds : polDir.files[f] = "good"
    /\ sup["policies"].outcome = "parse"
    /\ sup["policies"].last = polDir.sig
    /\ policyPub.policies = PolicyIds

\* C9: after a reload attempt that failed with a file I/O error (metadata
\* succeeded, the read failed) the supervisor attempts the reload again on
\* its next tick even though the mtime or signature has not changed: that
\* tick does not end as "unchanged".
C9_IoErrorRetriedNextTick ==
    [][\A s \in Sups :
          (sup[s].outcome = "io" /\ Stepped(s)) => sup'[s].outcome # "unchanged"]_vars



----------------------------------------------------------------------------
(* Streaming request-body scan: server/proxy.rs *)

\* Valid deferred indices of snapshot rs (ruleset.rules.get(idx) is Some)
Deferred(rs, idxs) == {idxs[j] : j \in {j \in 1..Len(idxs) : idxs[j] <= Len(rs)}}

\* keep: the largest body_keep_len over the deferred rules
KeepOf(rs, idxs) ==
    IF Deferred(rs, idxs) = {} THEN 0
    ELSE CHOOSE n \in {BodyKeepLen(rs[i]) : i \in Deferred(rs, idxs)} :
             \A i \in Deferred(rs, idxs) : BodyKeepLen(rs[i]) <= n

\* window[window.len() - keep ..], or the whole window when it is shorter
LastBytes(window, keep) ==
    IF Len(window) > keep
    THEN SubSeq(window, Len(window) - keep + 1, Len(window))
    ELSE window

\* the first deferred index, in list order, whose rule matches the window
FirstMatch(rs, idxs, window) ==
    LET hits == {j \in 1..Len(idxs) : idxs[j] <= Len(rs) /\ BodyMatch(rs[idxs[j]], window)}
    IN  idxs[CHOOSE j \in hits : \A h \in hits : j <= h]

\* ProxyCtx after request_body_filter has handled chunk with snapshot snap
ScanChunk(r, snap, chunk) ==
    LET rs == Rulesets[snap]
        keep == KeepOf(rs, r.req_body_rules)
        window == r.req_tail \o chunk
        arrived == [r EXCEPT !.rest = SubSeq(r.rest, Len(chunk) + 1, Len(r.rest)),
                             !.seen = r.seen \o chunk,
                             !.nchunks = r.nchunks + 1]
        passed == [arrived EXCEPT !.forwarded = r.forwarded \o chunk]
    IN  IF r.blocked \/ r.req_body_rules = <<>>
        THEN passed
        ELSE IF \E i \in Deferred(rs, r.req_body_rules) : BodyMatch(rs[i], window)
        THEN [arrived EXCEPT !.bodySnap = snap, !.blocked = TRUE,
                             !.decision = [kind |-> "block", status |-> 403,
                                           rule_id |-> rs[FirstMatch(rs, r.req_body_rules, window)].id,
                                           hit |-> NoHit,
                                           reason |-> "request body match"]]
        ELSE [passed EXCEPT !.bodySnap = snap,
                            !.req_tail = IF keep > 0 THEN LastBytes(window, keep)
                                          ELSE r.req_tail]

\* request_filter: the header phase fills the ProxyCtx
RequestFilter ==
    /\ req.phase = "new"
    /\ LET out == EvalRequestHeaders(Rulesets[rulesPub], req.ctx)
       IN  req' = [req EXCEPT !.phase = IF IsTerminal(out.decision) THEN "done" ELSE "body",
                              !.hdrSnap = rulesPub,
                              !.decision = out.decision,
                              !.req_body_rules = out.req_body_rules,
                              !.resp_body_rules = out.resp_body_rules,
                              !.blocked = IsTerminal(out.decision)]
    /\ UNCHANGED <<ccVars, reloadVars, otherVars>>

\* request_body_filter on a chunk of n bytes
RequestBodyFilter(n) ==
    /\ req.phase = "body"
    /\ n \in 1..Len(req.rest)
    /\ req' = ScanChunk(req, rulesPub, SubSeq(req.rest, 1, n))
    /\ UNCHANGED <<ccVars, reloadVars, otherVars>>

\* request_body_filter with body = None at the end of the stream
EndOfBody ==
    /\ req.phase = "body"
    /\ req.rest = <<>>
    /\ req' = [req EXCEPT !.phase = "done"]
    /\ UNCHANGED <<ccVars, reloadVars, otherVars>>

\* WafEngine::swap_rules, called by the rule supervisor
SwapRules(j) ==
    /\ j \in RulesetIds
    /\ j # rulesPub
    /\ rulesPub' = j
    /\ UNCHANGED <<ccVars, bodyVars, otherVars, rulesFile, upstreamFile, dmFile, polDir, edits,
                   routerPub, policyPub, sup>>

RECURSIVE Texts(_)
Texts(n) ==
    IF n = 0 THEN {<<>>}
    ELSE Texts(n - 1) \cup {Append(t, b) : t \in {t \in Texts(n - 1) : Len(t) = n - 1}, b \in Bytes}

InitBody ==
    /\ CcIdle
    /\ FilesIdle
    /\ OtherIdle
    /\ rulesPub \in RulesetIds
    /\ \E c \in Contexts, b \in Texts(MaxBody) : req = NewReq(c, b)

NextBody ==
    \/ RequestFilter
    \/ \E n \in 1..MaxBody : RequestBodyFilter(n)
    \/ EndOfBody

\* one request against a ruleset that is not reloaded
SpecBody == InitBody /\ [][NextBody]_vars

NextBodyReload ==
    \/ RequestFilter
    \/ \E n \in 1..MaxBody : RequestBodyFilter(n)
    \/ EndOfBody
    \/ \E j \in RulesetIds : SwapRules(j)

\* one request while the rule supervisor may publish another ruleset
SpecBodyReload == InitBody /\ [][NextBodyReload]_vars

----------------------------------------------------------------------------
(* Properties of the body scan *)

\* the rules and body patterns that indices idxs name in snapshot snap
NamedPatterns(snap, idxs) ==
    {[idx |-> i, id |-> Rulesets[snap][i].id, pats |-> Rulesets[snap][i].body_ac]
        : i \in Deferred(Rulesets[snap], idxs)}

\* C7: the deferred rule indices computed in the header phase are applied in
\* the body phase to the ruleset they were computed from: whenever a chunk has
\* been scanned, the rules and body patterns the indices named in that scan
\* are those they named in the header-phase snapshot, and every index is
\* valid there, even if rules were reloaded in between.
C7_IndicesMeetTheirSnapshot ==
    req.bodySnap # 0 =>
        /\ NamedPatterns(req.bodySnap, req.req_body_rules)
             = NamedPatterns(req.hdrSnap, req.req_body_rules)
        /\ \A j \in 1..Len(req.req_body_rules) :
             req.req_body_rules[j] <= Len(Rulesets[req.bodySnap])

\* some deferred rule's pattern occurs in text, ASCII case-insensitively
DeferredPatternIn(text) ==
    \E i \in Deferred(Rulesets[req.hdrSnap], req.req_body_rules) :
        AcIsMatch(Rulesets[req.hdrSnap][i].body_ac.v, text)

\* C10: for a fixed ruleset and deferred rule list, and for every split of the
\* body into chunks, the scan has reported a match exactly when a pattern of
\* a deferred rule occurs, ASCII case-insensitively, in the concatenation of
\* the chunks that have arrived; so a pattern that straddles chunk boundaries
\* is found in the window that the chunk completing it forms with the tail.
C10_ScanFindsExactlyOccurrences ==
    req.phase \in {"body", "done"} /\ ~IsTerminal(EvalRequestHeaders(Rulesets[req.hdrSnap], req.ctx).decision)
        => (req.blocked <=> DeferredPatternIn(req.seen))

\* a three-byte pattern found although it arrived one byte per chunk
C10_Witness ==
    /\ req.phase = "body"
    /\ req.blocked
    /\ req.nchunks = 3
    /\ Len(req.seen) = 3
    /\ req.seen = <<"b", "a", "b">>
    /\ req.hdrSnap = 2
    /\ req.req_body_rules = <<1, 2>>


----------------------------------------------------------------------------
(* Streaming response-body scan: server/proxy.rs *)

\* ProxyCtx after response_body_filter has handled chunk with snapshot snap;
\* what the filter leaves in body is what the client is sent
ScanResponseChunk(r, snap, chunk) ==
    LET rs == Rulesets[snap]
        keep == KeepOf(rs, r.resp_body_rules)
        window == r.resp_tail \o chunk
        arrived == [r EXCEPT !.resp_rest = SubSeq(r.resp_rest, Len(chunk) + 1, Len(r.resp_rest)),
                             !.resp_seen = r.resp_seen \o chunk]
        passed == [arrived EXCEPT !.delivered = r.delivered \o chunk]
    IN  IF r.blocked \/ r.resp_body_rules = <<>>
        THEN passed
        ELSE IF \E i \in Deferred(rs, r.resp_body_rules) : BodyMatch(rs[i], window)
        THEN [arrived EXCEPT !.respSnap = snap, !.blocked = TRUE,
                             !.decision = [kind |-> "block", status |-> 0,
                                           rule_id |-> rs[FirstMatch(rs, r.resp_body_rules, window)].id,
                                           hit |-> NoHit,
                                           reason |-> "response body match"]]
        ELSE [passed EXCEPT !.respSnap = snap,
                            !.resp_tail = IF keep > 0 THEN LastBytes(window, keep)
                                          ELSE r.resp_tail]

\* the upstream answers a request whose header phase did not end it
UpstreamResponse ==
    /\ req.phase = "done"
    /\ ~IsTerminal(EvalRequestHeaders(Rulesets[req.hdrSnap], req.ctx).decision)
    /\ req' = [req EXCEPT !.phase = "resp"]
    /\ UNCHANGED <<ccVars, reloadVars, otherVars>>

\* response_body_filter on a chunk of n bytes
ResponseBodyFilter(n) ==
    /\ req.phase = "resp"
    /\ n \in 1..Len(req.resp_rest)
    /\ req' = ScanResponseChunk(req, rulesPub, SubSeq(req.resp_rest, 1, n))
    /\ UNCHANGED <<ccVars, reloadVars, otherVars>>

\* response_body_filter with body = None at the end of the stream
EndOfResponse ==
    /\ req.phase = "resp"
    /\ req.resp_rest = <<>>
    /\ req' = [req EXCEPT !.phase = "closed"]
    /\ UNCHANGED <<ccVars, reloadVars, otherVars>>

InitResp ==
    /\ CcIdle
    /\ FilesIdle
    /\ OtherIdle
    /\ rulesPub \in RulesetIds
    /\ \E c \in Contexts, b \in Texts(1), r \in Texts(MaxBody) :
          req = [NewReq(c, b) EXCEPT !.resp_rest = r]

NextResp ==
    \/ RequestFilter
    \/ \E n \in 1..MaxBody : RequestBodyFilter(n)
    \/ EndOfBody
    \/ UpstreamResponse
    \/ \E n \in 1..MaxBody : ResponseBodyFilter(n)
    \/ EndOfResponse

\* one request and its response against a ruleset that is not reloaded
SpecResp == InitResp /\ [][NextResp]_vars

\* C11: once a deferred rule has matched the window of a request-body chunk,
\* the request is blocked and no request-body chunk that arrives afterwards
\* is passed on upstream: what has been forwarded no longer grows.
C11_NothingForwardedAfterMatch ==
    [][(req.blocked /\ req.decision.reason = "request body match")
          => req'.forwarded = req.forwarded]_vars

\* C12: once a deferred rule has matched the window of a response-body
\* chunk, the response is truncated there: no response-body chunk that
\* arrives afterwards is delivered to the client.
C12_NothingDeliveredAfterMatch ==
    [][(req.blocked /\ req.decision.reason = "response body match")
          => req'.delivered = req.delivered]_vars


----------------------------------------------------------------------------
(* Policy enforcement in the header phase: policy/enforcer.rs,
   policy/protection/{matcher,engine,key}.rs *)

\* str::to_ascii_lowercase on the strings that occur as methods and hosts
ToAsciiLowercase(x) ==
    CASE x = "GET" -> "get"
      [] x = "POST" -> "post"
      [] x = "Post" -> "post"
      [] x = "H1.Example" -> "h1.example"
      [] x = "User-Agent" -> "user-agent"
      [] OTHER -> x

EqIgnoreAsciiCase(a, b) == ToAsciiLowercase(a) = ToAsciiLowercase(b)

NoHost == "<none>"
NoHeader == "<absent>"

\* CompiledMatchExpr, one record shape for every variant
MExpr(op, strs, path, name, value, subs) ==
    [op |-> op, strs |-> strs, path |-> path, name |-> name, value |-> value, subs |-> subs]
MAny == MExpr("any", {}, <<>>, "", "", <<>>)
PathPrefix(p) == MExpr("path_prefix", {}, p, "", "", <<>>)
MethodIn(ms) == MExpr("method_in", ms, <<>>, "", "", <<>>)
HostIn(hs) == MExpr("host_in", hs, <<>>, "", "", <<>>)
HeaderExists(n) == MExpr("header_exists", {}, <<>>, n, "", <<>>)
HeaderEquals(n, v) == MExpr("header_equals", {}, <<>>, n, v, <<>>)
\* a compiled regex is the set of header values it matches
HeaderRegex(n, lang) == MExpr("header_regex", lang, <<>>, n, "", <<>>)
And(xs) == MExpr("and", {}, <<>>, "", "", xs)
Or(xs) == MExpr("or", {}, <<>>, "", "", xs)
Not(x) == MExpr("not", {}, <<>>, "", "", <<x>>)

\* HeaderView::get
HeaderGet(ctx, name) ==
    IF name \in DOMAIN ctx.headers THEN ctx.headers[name] ELSE NoHeader

\* matcher::eval
RECURSIVE Eval(_, _)
Eval(m, ctx) ==
    CASE m.op = "any" -> TRUE
      [] m.op = "path_prefix" -> StartsWith(ctx.path, m.path)
      [] m.op = "method_in" -> \E x \in m.strs : EqIgnoreAsciiCase(x, ctx.method)
      [] m.op = "host_in" ->
            ctx.host # NoHost /\ \E x \in m.strs : EqIgnoreAsciiCase(x, ctx.host)
      [] m.op = "header_exists" -> HeaderGet(ctx, m.name) # NoHeader
      [] m.op = "header_equals" ->
            HeaderGet(ctx, m.name) # NoHeader /\ HeaderGet(ctx, m.name) = m.value
      [] m.op = "header_regex" ->
            HeaderGet(ctx, m.name) # NoHeader /\ HeaderGet(ctx, m.name) \in m.strs
      [] m.op = "and" -> \A i \in 1..Len(m.subs) : Eval(m.subs[i], ctx)
      [] m.op = "or" -> \E i \in 1..Len(m.subs) : Eval(m.subs[i], ctx)
      [] m.op = "not" -> ~Eval(m.subs[1], ctx)

\* CompiledAction, one record shape for every variant
Action(kind, status, reason) ==
    [kind |-> kind, status |-> status, reason |-> reason, key_parts |-> <<>>,
     window_secs |-> 0, max_requests |-> 0, block_secs |-> 0,
     on_limit |-> [kind |-> "", status |-> 0, reason |-> ""]]
ActAllow == Action("allow", 0, "")
ActLog(reason) == Action("log", 0, reason)
ActBlock(status, reason) == Action("block", status, reason)
ActChallenge(status, reason) == Action("challenge", status, reason)
ActCc(parts, w, m, b, kind, status, reason) ==
    [kind |-> "cc", status |-> 0, reason |-> "", key_parts |-> parts,
     window_secs |-> w, max_requests |-> m, block_secs |-> b,
     on_limit |-> [kind |-> kind, status |-> status, reason |-> reason]]

PRule(id, matcher, action) == [id |-> id, matcher |-> matcher, action |-> action]

AdminPath == <<"/", "a", "d", "m", "i", "n", "/", "x">>

\* The compiled policies a host can resolve to (CompiledPolicy)
Policies ==
    { [id |-> "p-admin", waf_enabled |-> TRUE,
       precise |-> << PRule("deny-admin-post",
                            And(<<PathPrefix(<<"/", "a", "d", "m", "i", "n">>),
                                  MethodIn({"post"})>>),
                            ActBlock(403, "admin")) >>,
       base |-> << PRule("log-all", MAny, ActLog("seen")),
                   PRule("bot-challenge", HeaderExists("x-bot"), ActChallenge(401, "bot")),
                   PRule("cc-host", HostIn({"H1.Example"}),
                         ActCc(<<"host">>, 1, 1, 1, "block", 429, "slow down")) >>],
      [id |-> "p-open", waf_enabled |-> FALSE,
       precise |-> << PRule("allow-a", PathPrefix(<<"/", "a">>), ActAllow),
                      PRule("log-get", MethodIn({"GET"}), ActLog("get")),
                      PRule("cc-log", HeaderEquals("x-bot", "1"),
                            ActCc(<<"method", "header:x-bot">>, 1, 1, 1, "log", 0, "note")),
                      PRule("block-get", Not(MethodIn({"POST"})), ActBlock(403, "no get")) >>,
       base |-> << PRule("late", Or(<<HeaderRegex("x-bot", {"1", "2"}), HostIn({"h2"})>>),
                         ActChallenge(401, "late")) >>],
      [id |-> "p-waf", waf_enabled |-> TRUE,
       precise |-> << >>,
       base |-> << PRule("allow-all", MAny, ActAllow) >>],
      [id |-> "p-cc", waf_enabled |-> FALSE,
       precise |-> << PRule("cc-method", MAny,
                            ActCc(<<"method">>, 1, 1, 1, "challenge", 401, "wait")),
                      PRule("block-b", PathPrefix(<<"/", "b">>), ActBlock(403, "b")) >>,
       base |-> << PRule("cc-path-log", MAny,
                         ActCc(<<"path">>, 1, 1, 1, "log", 0, "note")),
                   PRule("challenge-bot", HeaderExists("x-bot"),
                         ActChallenge(401, "bot")) >>],
      [id |-> "p-front", waf_enabled |-> FALSE,
       precise |-> << PRule("block-admin", PathPrefix(<<"/", "a", "d", "m", "i", "n">>),
                            ActBlock(403, "admin")),
                      PRule("cc-late", MAny,
                            ActCc(<<"path">>, 1, 1, 1, "block", 429, "slow down")) >>,
       base |-> << PRule("cc-base", MAny,
                         ActCc(<<"method">>, 1, 1, 1, "log", 0, "note")) >>] }

\* The requests of the model (WafContext and the request's headers)
EnfContexts ==
    { [method |-> m, path |-> p, host |-> h, headers |-> hs] :
        m \in {"GET", "POST"},
        p \in {AdminPath, <<"/", "a">>, <<"/", "b">>},
        h \in {"h1.example"},
        hs \in {<<>>, [n \in {"x-bot"} |-> "1"]} }

\* key::part_value
PartValue(part, ctx) ==
    CASE part = "host" -> IF ctx.host = NoHost THEN "" ELSE ctx.host
      [] part = "path" -> ctx.path
      [] part = "method" -> ctx.method
      [] part = "header:x-bot" ->
            IF HeaderGet(ctx, "x-bot") = NoHeader THEN "" ELSE HeaderGet(ctx, "x-bot")
      [] OTHER -> ""

\* key::build_key: part=value joined with '|', as the pieces pushed to the string
RECURSIVE BuildKey(_, _)
BuildKey(parts, ctx) ==
    IF parts = <<>> THEN <<>>
    ELSE LET n == Len(parts)
             head == BuildKey(SubSeq(parts, 1, n - 1), ctx)
         IN  (IF n > 1 THEN Append(head, "|") ELSE head)
                \o <<parts[n], "=", PartValue(parts[n], ctx)>>

\* format!("rule={}|{}", rule_id, key_body)
LimiterKey(rule_id, key_body) == <<"rule=", rule_id, "|">> \o key_body

\* every limiter key a request of the model can use
EnfKeys ==
    { LimiterKey(r.id, BuildKey(r.action.key_parts, c)) :
        r \in UNION { {p.precise[i] : i \in 1..Len(p.precise)}
                        \cup {p.base[i] : i \in 1..Len(p.base)} : p \in Policies },
        c \in EnfContexts }

\* ProtectionEngine::exec_action at time t with limiter table tbl
ExecAction(rule, ctx, tbl, t) ==
    CASE rule.action.kind \in {"allow", "log"} -> [decision |-> Allow, table |-> tbl]
      [] rule.action.kind \in {"block", "challenge"} ->
            [decision |-> [kind |-> rule.action.kind, status |-> rule.action.status,
                           rule_id |-> rule.id, hit |-> NoHit,
                           reason |-> rule.action.reason],
             table |-> tbl]
      [] rule.action.kind = "cc" ->
            LET k == LimiterKey(rule.id, BuildKey(rule.action.key_parts, ctx))
                out == CheckOutcome(ReadEntry(tbl, k, t), t, rule.action, rule.id)
            IN  [decision |-> ExecCc(rule.id, rule.action, out.hit),
                 table |-> [tbl EXCEPT ![k] = out.entry]]

\* an evaluation that stops at the first matching rule, terminal or not
RECURSIVE EvalRulesFirstMatch(_, _, _, _, _, _)
EvalRulesFirstMatch(rules, i, ctx, tbl, t, visited) ==
    IF i > Len(rules) THEN [decision |-> Allow, table |-> tbl, visited |-> visited]
    ELSE IF ~Eval(rules[i].matcher, ctx)
    THEN EvalRulesFirstMatch(rules, i + 1, ctx, tbl, t, visited)
    ELSE LET out == ExecAction(rules[i], ctx, tbl, t)
         IN  [decision |-> out.decision, table |-> out.table,
              visited |-> Append(visited, rules[i].id)]

\* the loop of ProtectionEngine::eval_rules from rule i on; visited lists the
\* ids of the rules whose action was executed
RECURSIVE EvalRulesFrom(_, _, _, _, _, _)
EvalRulesFrom(rules, i, ctx, tbl, t, visited) ==
    IF i > Len(rules) THEN [decision |-> Allow, table |-> tbl, visited |-> visited]
    ELSE IF ~Eval(rules[i].matcher, ctx)
    THEN EvalRulesFrom(rules, i + 1, ctx, tbl, t, visited)
    ELSE LET out == ExecAction(rules[i], ctx, tbl, t)
         IN  IF IsTerminal(out.decision)
             THEN [decision |-> out.decision, table |-> out.table,
                   visited |-> Append(visited, rules[i].id)]
             ELSE EvalRulesFrom(rules, i + 1, ctx, out.table, t,
                                Append(visited, rules[i].id))

\* the limiter table after the action of every matching rule from i on has
\* been executed
RECURSIVE TableAfterAll(_, _, _, _, _)
TableAfterAll(rules, i, ctx, tbl, t) ==
    IF i > Len(rules) THEN tbl
    ELSE IF ~Eval(rules[i].matcher, ctx)
    THEN TableAfterAll(rules, i + 1, ctx, tbl, t)
    ELSE TableAfterAll(rules, i + 1, ctx, ExecAction(rules[i], ctx, tbl, t).table, t)

\* an evaluation that returns at the terminal rule and has the Cc rules
\* behind it counted as well
EvalRulesCountingAll(rules, ctx, tbl, t) ==
    [EvalRulesFrom(rules, 1, ctx, tbl, t, <<>>) EXCEPT
        !.table = TableAfterAll(rules, 1, ctx, tbl, t)]

\* ProtectionEngine::eval_rules
EvalRules(rules, ctx, tbl, t) == EvalRulesFrom(rules, 1, ctx, tbl, t, <<>>)

EnforceResult(d, lists, tbl, stages, precise, base) ==
    [decision |-> d, req_body_rules |-> lists.req_body_rules,
     resp_body_rules |-> lists.resp_body_rules, table |-> tbl,
     stages |-> stages, precise |-> precise, base |-> base]

NoLists == [req_body_rules |-> <<>>, resp_body_rules |-> <<>>]

\* an enforcement that hands a terminal base decision on with the WAF
\* engine's deferred lists
EnforceKeepingLists(policy, ctx, tbl, t, rs) ==
    LET d1 == EvalRules(policy.precise, ctx, tbl, t)
        d2 == EvalRules(policy.base, ctx, d1.table, t)
        w  == EvalRequestHeaders(rs, ctx)
    IN  IF IsTerminal(d1.decision)
        THEN EnforceResult(d1.decision, NoLists, d1.table, <<"precise">>, d1.visited, <<>>)
        ELSE IF IsTerminal(d2.decision)
        THEN EnforceResult(d2.decision, w, d2.table, <<"precise", "base", "waf">>,
                           d1.visited, d2.visited)
        ELSE IF ~policy.waf_enabled
        THEN EnforceResult(Allow, NoLists, d2.table, <<"precise", "base">>,
                           d1.visited, d2.visited)
        ELSE EnforceResult(w.decision, w, d2.table, <<"precise", "base", "waf">>,
                           d1.visited, d2.visited)

\* PolicyEnforcer::enforce_request_headers for a resolved policy; stages
\* lists the evaluations that were run
EnforceRequestHeaders(policy, ctx, tbl, t, rs) ==
    LET d1 == EvalRules(policy.precise, ctx, tbl, t)
        d2 == EvalRules(policy.base, ctx, d1.table, t)
        w  == EvalRequestHeaders(rs, ctx)
    IN  IF IsTerminal(d1.decision)
        THEN EnforceResult(d1.decision, NoLists, d1.table, <<"precise">>, d1.visited, <<>>)
        ELSE IF IsTerminal(d2.decision)
        THEN EnforceResult(d2.decision, NoLists, d2.table, <<"precise", "base">>,
                           d1.visited, d2.visited)
        ELSE IF ~policy.waf_enabled
        THEN EnforceResult(Allow, NoLists, d2.table, <<"precise", "base">>,
                           d1.visited, d2.visited)
        ELSE EnforceResult(w.decision, w, d2.table, <<"precise", "base", "waf">>,
                           d1.visited, d2.visited)

\* one request goes through enforce_request_headers
Enforce(policy, ctx) ==
    /\ enf.n < MaxRequests
    /\ \E r \in {EnforceRequestHeaders(policy, ctx, table, now, Rulesets[rulesPub])} :
           /\ table' = r.table
           /\ enf' = [n |-> enf.n + 1, policy |-> policy, ctx |-> ctx, before |-> table,
                      decision |-> r.decision, req_body_rules |-> r.req_body_rules,
                      resp_body_rules |-> r.resp_body_rules, stages |-> r.stages,
                      precise |-> r.precise, base |-> r.base]
    /\ UNCHANGED <<now, cfg, hist, pc, loc>>
    /\ UNCHANGED <<reloadVars, bodyVars, res, dmq, rt, auxVars>>

InitEnforce ==
    /\ now = 0
    /\ cfg = ExampleCc
    /\ table = [k \in EnfKeys |-> NoEntry]
    /\ hist = <<>>
    /\ pc = [p \in Procs |-> "idle"]
    /\ loc = [p \in Procs |-> IdleLoc]
    /\ FilesIdle
    /\ rulesPub \in RulesetIds
    /\ BodyIdle
    /\ enf = IdleEnf
    /\ res = IdleRes /\ dmq = IdleDmq /\ rt = IdleRt /\ AuxIdle

NextEnforce ==
    \E p \in Policies, c \in EnfContexts : Enforce(p, c)

\* requests enforced one after another at one instant
SpecEnforce == InitEnforce /\ [][NextEnforce]_vars


----------------------------------------------------------------------------
(* Properties of the enforcement *)

\* the ids of the rules of a list whose matcher accepts the request, in order
RECURSIVE MatchingIds(_, _)
MatchingIds(rules, ctx) ==
    IF rules = <<>> THEN <<>>
    ELSE LET n == Len(rules)
             head == MatchingIds(SubSeq(rules, 1, n - 1), ctx)
         IN  IF Eval(rules[n].matcher, ctx) THEN Append(head, rules[n].id) ELSE head

ActionKindOf(rules, id) == (CHOOSE r \in {rules[i] : i \in 1..Len(rules)} : r.id = id).action.kind

IsPrefix(a, b) == Len(a) <= Len(b) /\ SubSeq(b, 1, Len(a)) = a

\* eval_rules on one list of the last request, from the table it found
LastEval(rules) == EvalRules(rules, enf.ctx, enf.before, now)

\* C14: eval_rules walks the list in order. The rules it executes are the
\* matching rules, in order, up to the first one that yields Block or
\* Challenge; a matching Allow or Log rule never ends the walk; a terminal
\* result carries the id of the rule that ended the walk; and the result is
\* Allow exactly when every matching rule was executed and none was terminal.
C14_EvalRulesOrder ==
    enf.n > 0 =>
        \A rules \in {enf.policy.precise, enf.policy.base} :
            LET out == LastEval(rules)
                all == MatchingIds(rules, enf.ctx)
                v   == out.visited
            IN  /\ IsPrefix(v, all)
                /\ \A j \in 1..(Len(v) - 1) :
                     ActionKindOf(rules, v[j]) \in {"allow", "log", "cc"}
                /\ IsTerminal(out.decision) =>
                     /\ v # <<>>
                     /\ out.decision.rule_id = v[Len(v)]
                     /\ ActionKindOf(rules, v[Len(v)]) \in {"block", "challenge", "cc"}
                /\ ~IsTerminal(out.decision) =>
                     /\ out.decision = Allow
                     /\ v = all
                     /\ \A j \in 1..Len(v) :
                          ActionKindOf(rules, v[j]) \in {"allow", "log", "cc"}

\* a matching Allow rule, a Log rule and a Cc rule with on_limit Log are
\* passed and a later rule blocks
C14_Witness ==
    /\ enf.n > 0
    /\ enf.policy.id = "p-open"
    /\ enf.precise = <<"allow-a", "log-get", "cc-log", "block-get">>
    /\ enf.decision.kind = "block"
    /\ enf.decision.rule_id = "block-get"

\* C13: enforce_request_headers evaluates the precise rules, then the base
\* rules, then the WAF engine. A terminal precise decision is returned with
\* nothing else evaluated and both deferred lists empty; a terminal base
\* decision is returned with the WAF engine not evaluated and both lists
\* empty.
C13_TerminalPrecedence ==
    enf.n > 0 =>
        LET d1 == LastEval(enf.policy.precise)
            d2 == EvalRules(enf.policy.base, enf.ctx, d1.table, now)
        IN  /\ IsTerminal(d1.decision) =>
                /\ enf.decision = d1.decision
                /\ enf.stages = <<"precise">>
                /\ enf.base = <<>>
                /\ table = d1.table
                /\ enf.req_body_rules = <<>> /\ enf.resp_body_rules = <<>>
            /\ (~IsTerminal(d1.decision) /\ IsTerminal(d2.decision)) =>
                /\ enf.decision = d2.decision
                /\ enf.stages = <<"precise", "base">>
                /\ enf.req_body_rules = <<>> /\ enf.resp_body_rules = <<>>
            /\ (~IsTerminal(d1.decision) /\ ~IsTerminal(d2.decision) /\ enf.policy.waf_enabled) =>
                enf.stages = <<"precise", "base", "waf">>

\* POST /admin/x is blocked by the precise rule although base rules match
\* and the ruleset has a rule to defer
C13_Witness ==
    /\ enf.n > 0
    /\ enf.ctx.method = "POST" /\ enf.ctx.path = AdminPath
    /\ enf.decision.kind = "block"
    /\ enf.decision.rule_id = "deny-admin-post"
    /\ MatchingIds(enf.policy.base, enf.ctx) # <<>>
    /\ EvalRequestHeaders(Rulesets[rulesPub], enf.ctx).req_body_rules # <<>>
    /\ enf.req_body_rules = <<>>


----------------------------------------------------------------------------
(* The domain matcher: policy/domain_map.rs *)

\* the bytes host names and domain-map keys are made of
HostBytes == {"a", "b", "c", ".", "A"}

RECURSIVE HostTexts(_)
HostTexts(n) ==
    IF n = 0 THEN {<<>>}
    ELSE HostTexts(n - 1)
           \cup {Append(t, b) : t \in {t \in HostTexts(n - 1) : Len(t) = n - 1}, b \in HostBytes}

EndsWith(t, suf) ==
    Len(suf) <= Len(t) /\ SubSeq(t, Len(t) - Len(suf) + 1, Len(t)) = suf

Star == <<"*", ".">>

\* str::strip_prefix("*.")
IsWildcardKey(key) == StartsWith(key, Star)
StripStar(key) == SubSeq(key, Len(Star) + 1, Len(key))

\* DomainMapFile values: domains maps a key to its policy id
DomainMapFiles ==
    { [domains |-> (<<"a", ".", "b", ".", "c">> :> "P1")
                     @@ (<<"*", ".", "b", ".", "c">> :> "P2")
                     @@ (<<"*", ".", "c">> :> "P3"),
       default_policy |-> "PD"],
      [domains |-> (<<"*", ".", "c">> :> "P3")
                     @@ (<<"*", ".", "B", ".", "c">> :> "P2")
                     @@ (<<"*", ".", "a", ".", "b">> :> "P1")
                     @@ (<<"A", ".", "c">> :> "P1")
                     @@ (<<"a", ".", "c">> :> "P4"),
       default_policy |-> "PD"],
      [domains |-> (<<"*", ".">> :> "P3")
                     @@ (<<"*", ".", "a">> :> "P2")
                     @@ (<<"*", ".", "b">> :> "P1")
                     @@ (<<"b">> :> "P4"),
       default_policy |-> "PD"] }

\* the orders in which the elements of a set can come out of a HashMap
Orders_of(S) ==
    {o \in [1..Cardinality(S) -> S] : \A i, j \in 1..Cardinality(S) : i # j => o[i] # o[j]}

\* the wildcard entries (suffix, policy) of a file, keys lower-cased
WildcardEntries(f) ==
    { <<StripStar(LowerAll(key)), f.domains[key]>> :
        key \in {key \in DOMAIN f.domains : IsWildcardKey(LowerAll(key))} }

\* the exact keys of a file, lower-cased
ExactKeys(f) ==
    { LowerAll(key) : key \in {key \in DOMAIN f.domains : ~IsWildcardKey(LowerAll(key))} }

\* the matchers a from_file that did not sort the suffixes could build
FromFileUnsorted(f) ==
    { [exact |-> e, wildcard_suffix |-> w, default_policy |-> f.default_policy] :
        e \in { e \in [ExactKeys(f) -> {f.domains[key] : key \in DOMAIN f.domains}] :
                  \A h \in ExactKeys(f) :
                     \E key \in DOMAIN f.domains : LowerAll(key) = h /\ f.domains[key] = e[h] },
        w \in Orders_of(WildcardEntries(f)) }

\* DomainMatcher::from_file: the matchers it can build from f. The HashMap
\* is iterated in an arbitrary order: of two keys that are equal once
\* lower-cased either may be inserted last, and the stable sort by
\* descending suffix length keeps the iteration order of equal lengths.
FromFile(f) ==
    { [exact |-> e, wildcard_suffix |-> w, default_policy |-> f.default_policy] :
        e \in { e \in [ExactKeys(f) -> {f.domains[key] : key \in DOMAIN f.domains}] :
                  \A h \in ExactKeys(f) :
                     \E key \in DOMAIN f.domains : LowerAll(key) = h /\ f.domains[key] = e[h] },
        w \in { w \in Orders_of(WildcardEntries(f)) :
                  \A i \in 1..(Len(w) - 1) : Len(w[i][1]) >= Len(w[i + 1][1]) } }

\* h == *suf || h.ends_with(&format!(".{}", suf))
SuffixMatches(h, suf) == h = suf \/ EndsWith(h, <<".">> \o suf)

\* the first wildcard entry of the list that matches h (0 when none does)
FirstWildcard(w, h) ==
    LET hits == {i \in 1..Len(w) : SuffixMatches(h, w[i][1])}
    IN  IF hits = {} THEN 0 ELSE CHOOSE i \in hits : \A j \in hits : i <= j

\* a match that tries the wildcard entries before the exact ones
MatchPolicyIdWildcardFirst(mt, host) ==
    LET h == LowerAll(host)
        i == FirstWildcard(mt.wildcard_suffix, h)
    IN  IF i # 0 THEN mt.wildcard_suffix[i][2]
        ELSE IF h \in DOMAIN mt.exact THEN mt.exact[h]
        ELSE mt.default_policy

\* DomainMatcher::match_policy_id
MatchPolicyId(mt, host) ==
    LET h == LowerAll(host)
        i == FirstWildcard(mt.wildcard_suffix, h)
    IN  IF h \in DOMAIN mt.exact THEN mt.exact[h]
        ELSE IF i # 0 THEN mt.wildcard_suffix[i][2]
        ELSE mt.default_policy

\* a matcher is built from a file and asked for a host
MatchHost ==
    /\ dmq.phase = "new"
    /\ dmq' = [dmq EXCEPT !.phase = "done",
                          !.result = MatchPolicyId(dmq.matcher, dmq.host)]
    /\ UNCHANGED <<ccVars, reloadVars, bodyVars, enf, res, rt, auxVars>>

InitDomain ==
    /\ CcIdle /\ ReloadIdle /\ BodyIdle
    /\ enf = IdleEnf /\ res = IdleRes /\ rt = IdleRt /\ AuxIdle
    /\ \E f \in DomainMapFiles, h \in HostTexts(MaxHost) :
         \E mt \in FromFile(f) :
            dmq = [phase |-> "new", file |-> f, matcher |-> mt, host |-> h, result |-> ""]

NextDomain == MatchHost

SpecDomain == InitDomain /\ [][NextDomain]_vars

\* the keys of the file that match the host, exactly or as wildcards
ExactHits(f, host) ==
    {key \in DOMAIN f.domains :
        ~IsWildcardKey(LowerAll(key)) /\ LowerAll(key) = LowerAll(host)}

WildcardHits(f, host) ==
    {key \in DOMAIN f.domains :
        /\ IsWildcardKey(LowerAll(key))
        /\ SuffixMatches(LowerAll(host), StripStar(LowerAll(key)))}

\* C17: for a host with no exact entry that matches several wildcard
\* suffixes, match_policy_id returns the policy of a matching suffix of the
\* greatest byte length.
C17_LongestSuffixWins ==
    (dmq.phase = "done" /\ ExactHits(dmq.file, dmq.host) = {}
        /\ WildcardHits(dmq.file, dmq.host) # {}) =>
        \E key \in WildcardHits(dmq.file, dmq.host) :
            /\ \A other \in WildcardHits(dmq.file, dmq.host) : Len(other) <= Len(key)
            /\ dmq.result = dmq.file.domains[key]

\* b.b.c matches *.b.c and *.c and gets the policy of *.b.c
C17_Witness ==
    /\ dmq.phase = "done"
    /\ dmq.host = <<"b", ".", "b", ".", "c">>
    /\ ExactHits(dmq.file, dmq.host) = {}
    /\ Cardinality(WildcardHits(dmq.file, dmq.host)) = 2
    /\ dmq.result = "P2"

\* C18: match_policy_id compares the lower-cased host; an exact entry wins
\* over every wildcard entry that also matches; a wildcard entry *.suffix
\* matches the bare host suffix and every host ending in .suffix; and the
\* default policy id is returned exactly when no entry matches.
C18_ExactThenWildcardThenDefault ==
    dmq.phase = "done" =>
        /\ dmq.result = MatchPolicyId(dmq.matcher, LowerAll(dmq.host))
        /\ ExactHits(dmq.file, dmq.host) # {} =>
             \E key \in ExactHits(dmq.file, dmq.host) : dmq.result = dmq.file.domains[key]
        /\ (ExactHits(dmq.file, dmq.host) = {} /\ WildcardHits(dmq.file, dmq.host) # {}) =>
             \E key \in WildcardHits(dmq.file, dmq.host) : dmq.result = dmq.file.domains[key]
        /\ (dmq.result = dmq.file.default_policy)
             <=> (ExactHits(dmq.file, dmq.host) = {} /\ WildcardHits(dmq.file, dmq.host) = {})

\* A.b.c, in upper case, has an exact entry and matches two wildcards
C18_Witness ==
    /\ dmq.phase = "done"
    /\ dmq.host = <<"A", ".", "b", ".", "c">>
    /\ ExactHits(dmq.file, dmq.host) # {}
    /\ Cardinality(WildcardHits(dmq.file, dmq.host)) = 2
    /\ dmq.result = "P1"


----------------------------------------------------------------------------
(* Policy resolution: policy/manager.rs *)

\* the hosts that ask for a policy: the domain map has an entry for h1 only
ResHosts == {"h1", "h2"}

Fallback == "policy-fallback"

\* st.matcher.match_policy_id(host) on a map with one exact entry
MatchEntry(st, host) == IF host = "h1" THEN st.entry ELSE st.default

\* a lookup in the policies map of the state published now
PoliciesOfCurrent(st, current) == current.policies

\* st.policies of the state the call loaded
PoliciesOf(st, current) == st.policies

\* the rest of get_policy_for_host once st is loaded; current is the state
\* published at the time of the lookup
Lookup(st, current, host) ==
    LET pid == MatchEntry(st, host)
        policies == PoliciesOf(st, current)
    IN  IF pid \in policies THEN pid
        ELSE IF st.default \in policies THEN st.default
        ELSE Fallback

\* PolicyManager::get_policy_for_host on one state
GetPolicyForHost(st, host) == Lookup(st, st, host)

\* let st = self.load()
ResolveLoad(h) ==
    /\ res.phase \in {"idle", "done"}
    /\ res' = [phase |-> "loaded", host |-> h, st |-> policyPub, result |-> ""]
    /\ UNCHANGED <<ccVars, reloadVars, bodyVars, enf, dmq, rt, auxVars>>

\* match_policy_id and the lookups in st.policies
ResolveFinish ==
    /\ res.phase = "loaded"
    /\ res' = [res EXCEPT !.phase = "done",
                          !.result = Lookup(res.st, policyPub, res.host)]
    /\ UNCHANGED <<ccVars, reloadVars, bodyVars, enf, dmq, rt, auxVars>>

InitResolve ==
    /\ CcIdle /\ ReloadIdle /\ BodyIdle
    /\ enf = IdleEnf /\ res = IdleRes /\ dmq = IdleDmq /\ rt = IdleRt /\ AuxIdle

NextResolve ==
    \/ \E d \in PolicyIds \cup {"bad"}, e \in EntryIds : EditDomainMap(d, e)
    \/ \E f \in PolicyIds : \E st \in {"absent", "good", "bad"} : EditPolicies(f, st)
    \/ DomainMapTick
    \/ PolicyDirTick
    \/ \E s \in {"domain_map", "policies"} : PolicySwap(s)
    \/ \E h \in ResHosts : ResolveLoad(h)
    \/ ResolveFinish

\* policy resolutions while the policy supervisors reload
SpecResolve == InitResolve /\ [][NextResolve]_vars

\* C15: for every host and every published PolicyState (the initial one and
\* those published by reloads) get_policy_for_host returns a policy of that
\* state's policies map, never the synthesized fallback; a host whose entry
\* names a policy id that is not in the map gets the default policy.
C15_ResolutionNeverFallsBack ==
    /\ \A h \in ResHosts :
         /\ GetPolicyForHost(policyPub, h) \in policyPub.policies
         /\ GetPolicyForHost(policyPub, h) # Fallback
         /\ MatchEntry(policyPub, h) \notin policyPub.policies
              => GetPolicyForHost(policyPub, h) = policyPub.default
    /\ res.phase = "done" => res.result \in res.st.policies /\ res.result # Fallback

\* after a reload, h1's entry names a policy that is not in the map
C15_Witness ==
    /\ res.phase = "done"
    /\ res.host = "h1"
    /\ res.st.dmver # 0
    /\ res.st.entry \notin res.st.policies
    /\ res.result = res.st.default

\* C16: one policy resolution observes one published PolicyState: the policy
\* returned is the one get_policy_for_host gives on the state loaded at the
\* start of the call, matcher and policies map alike, even when a reload is
\* published while the call runs.
C16_ResolutionUsesOneSnapshot ==
    res.phase = "done" => res.result = GetPolicyForHost(res.st, res.host)

\* a reload that changed the map and the entry was published during the call
C16_Witness ==
    /\ res.phase = "done"
    /\ policyPub # res.st
    /\ GetPolicyForHost(policyPub, res.host) # res.result


----------------------------------------------------------------------------
(* The upstream router: upstream/router.rs *)

NoName == "<none>"

\* request hosts
RouterHosts ==
    {"api.customer.com", "api.customer.com:8080", "b.customer.com", "c.other",
     "d.customer.com", "e.customer.com"}

\* strip_port on the hosts of the model
StripPort(h) == IF h = "api.customer.com:8080" THEN "api.customer.com" ELSE h

\* the CNAME records: ResolverConfig::Static.host_to_cname, and what the DNS
\* answers to a CNAME query (NoName: no record)
CnameOf(name) ==
    CASE name = "api.customer.com" -> "42.edge"
      [] name = "b.customer.com" -> "7.edge"
      [] name = "d.customer.com" -> "9.edge"
      [] name = "e.customer.com" -> "www.other"
      [] name = "9.edge" -> "9.Edge"
      [] OTHER -> NoName

\* eq_ignore_ascii_case on names
SameName(a, b) == a = b \/ {a, b} = {"9.edge", "9.Edge"}

\* tenant_re.captures(cname): group 1 of a regex like ^(\d+)\.edge$
TenantFromCname(cname) ==
    CASE cname = "42.edge" -> "42"
      [] cname = "7.edge" -> "7"
      [] cname = "9.edge" -> "9"
      [] OTHER -> NoName

\* Inner.tenants and Inner.default_upstreams
Tenants == ("42" :> <<"u1", "u2">>) @@ ("9" :> <<>>)
DefaultUpstreams == <<"d1", "d2", "d3">>

EdgeKeys == DOMAIN Tenants \cup {"default"}

\* the router configurations: resolver mode, cache_ttl in seconds,
\* cname_chain_limit and default.upstreams (an empty list is only warned about)
RouterConfigs ==
    { [mode |-> "static", cache_ttl |-> 0, cname_chain_limit |-> 1,
       default_upstreams |-> DefaultUpstreams],
      [mode |-> "static", cache_ttl |-> 0, cname_chain_limit |-> 1,
       default_upstreams |-> <<>>],
      [mode |-> "dns", cache_ttl |-> 1, cname_chain_limit |-> 1,
       default_upstreams |-> DefaultUpstreams],
      [mode |-> "dns", cache_ttl |-> 0, cname_chain_limit |-> 2,
       default_upstreams |-> DefaultUpstreams] }

DnsCached ==
    [mode |-> "dns", cache_ttl |-> 1, cname_chain_limit |-> 1,
     default_upstreams |-> DefaultUpstreams]

\* what the DNS does with a query: it answers from its records, it fails, or
\* it has no record (NoRecordsFound)
DnsAnswers == {"ok", "error", "norecord"}

NoCacheEntry == [present |-> FALSE, expires |-> 0, cname |-> NoName]

\* Inner of UpstreamRouter::new: empty cname_cache, empty rr
NewInner ==
    [rr |-> [k \in EdgeKeys |-> 0], cname_cache |-> [h \in RouterHosts |-> NoCacheEntry]]

\* the Inner of the router object published as gen
InnerOf(gen) == IF gen \in DOMAIN rt.routers THEN rt.routers[gen] ELSE NewInner

\* resolve_cname_dns: follow CNAME records from cur for at most n lookups
RECURSIVE ResolveCnameDns(_, _)
ResolveCnameDns(cur, n) ==
    IF n = 0 THEN cur
    ELSE IF CnameOf(cur) = NoName THEN NoName
    ELSE IF SameName(CnameOf(cur), cur) THEN cur
    ELSE ResolveCnameDns(CnameOf(cur), n - 1)

\* a cache whose entries are stale from the instant they expire at
ResolveCnameStaleAtExpiry(c, inner, host, t, dns) ==
    LET e == inner.cname_cache[host]
    IN  IF c.mode = "static"
        THEN [ok |-> TRUE, cname |-> CnameOf(host), asked |-> FALSE, cache |-> inner.cname_cache]
        ELSE IF c.cache_ttl > 0 /\ e.present /\ t < e.expires
        THEN [ok |-> TRUE, cname |-> e.cname, asked |-> FALSE, cache |-> inner.cname_cache]
        ELSE IF dns = "error"
        THEN [ok |-> FALSE, cname |-> NoName, asked |-> TRUE, cache |-> inner.cname_cache]
        ELSE LET cname == IF dns = "norecord" THEN NoName
                          ELSE ResolveCnameDns(host, c.cname_chain_limit)
             IN  [ok |-> TRUE, cname |-> cname, asked |-> TRUE,
                  cache |-> IF c.cache_ttl > 0
                            THEN [inner.cname_cache EXCEPT ![host] =
                                    [present |-> TRUE, expires |-> t + Secs(c.cache_ttl),
                                     cname |-> cname]]
                            ELSE inner.cname_cache]

\* resolve_cname: the answer, whether DNS was asked, and the cache afterwards
ResolveCname(c, inner, host, t, dns) ==
    LET e == inner.cname_cache[host]
    IN  IF c.mode = "static"
        THEN [ok |-> TRUE, cname |-> CnameOf(host), asked |-> FALSE, cache |-> inner.cname_cache]
        ELSE IF c.cache_ttl > 0 /\ e.present /\ t <= e.expires
        THEN [ok |-> TRUE, cname |-> e.cname, asked |-> FALSE, cache |-> inner.cname_cache]
        ELSE IF dns = "error"
        THEN [ok |-> FALSE, cname |-> NoName, asked |-> TRUE, cache |-> inner.cname_cache]
        ELSE LET cname == IF dns = "norecord" THEN NoName
                          ELSE ResolveCnameDns(host, c.cname_chain_limit)
             IN  [ok |-> TRUE, cname |-> cname, asked |-> TRUE,
                  cache |-> IF c.cache_ttl > 0
                            THEN [inner.cname_cache EXCEPT ![host] =
                                    [present |-> TRUE, expires |-> t + Secs(c.cache_ttl),
                                     cname |-> cname]]
                            ELSE inner.cname_cache]

\* an index that starts at the second element of the list
RrIndexFromSecond(counter, n) == (counter + 1) % n

\* fetch_add(1) % ups.len(): the index for the counter value read
RrIndex(counter, n) == counter % n

\* rr_pick: the upstream (NoName for an empty list) and the counters afterwards
RrPick(rr, key, ups) ==
    IF ups = <<>> THEN [upstream |-> NoName, rr |-> rr]
    ELSE [upstream |-> ups[RrIndex(rr[key], Len(ups)) + 1],
          rr |-> [rr EXCEPT ![key] = rr[key] + 1]]

\* a pick that gives the empty string whenever the selected list is empty
PickEndpointWithoutFallback(c, inner, h, t, dns) ==
    LET host == StripPort(h)
        r == IF h = NoName
             THEN [ok |-> TRUE, cname |-> NoName, asked |-> FALSE, cache |-> inner.cname_cache]
             ELSE ResolveCname(c, inner, host, t, dns)
        tenant == IF r.ok /\ r.cname # NoName THEN TenantFromCname(r.cname) ELSE NoName
        key == IF tenant # NoName /\ tenant \in DOMAIN Tenants THEN tenant ELSE "default"
        ups == IF key = "default" THEN c.default_upstreams ELSE Tenants[key]
        p == RrPick(inner.rr, key, ups)
    IN  [key |-> key,
         upstream |-> IF p.upstream # NoName THEN p.upstream ELSE "",
         fromList |-> p.upstream # NoName,
         resolved |-> r.ok, asked |-> r.asked, cname |-> r.cname,
         inner |-> [rr |-> p.rr, cname_cache |-> r.cache]]

\* pick_endpoint_and_edge_key(host) on the router published as gen; h is
\* NoName for a request without a host
PickEndpointAndEdgeKey(c, inner, h, t, dns) ==
    LET host == StripPort(h)
        r == IF h = NoName
             THEN [ok |-> TRUE, cname |-> NoName, asked |-> FALSE, cache |-> inner.cname_cache]
             ELSE ResolveCname(c, inner, host, t, dns)
        tenant == IF r.ok /\ r.cname # NoName THEN TenantFromCname(r.cname) ELSE NoName
        key == IF tenant # NoName /\ tenant \in DOMAIN Tenants THEN tenant ELSE "default"
        ups == IF key = "default" THEN c.default_upstreams ELSE Tenants[key]
        p == RrPick(inner.rr, key, ups)
    IN  [key |-> key,
         upstream |-> IF p.upstream # NoName THEN p.upstream
                      ELSE IF c.default_upstreams # <<>> THEN c.default_upstreams[1] ELSE "",
         fromList |-> p.upstream # NoName,
         resolved |-> r.ok, asked |-> r.asked, cname |-> r.cname,
         inner |-> [rr |-> p.rr, cname_cache |-> r.cache]]

\* request_filter: upstream_mgr.get() and one pick on that router
Pick(h, dns) ==
    /\ Len(rt.picks) < MaxPicks
    /\ \E out \in {PickEndpointAndEdgeKey(rt.cfg, InnerOf(routerPub), h, now, dns)} :
         rt' = [rt EXCEPT
                  !.routers = (routerPub :> out.inner) @@ rt.routers,
                  !.picks = Append(rt.picks,
                               [host |-> StripPort(h), gen |-> routerPub, at |-> now,
                                key |-> out.key, upstream |-> out.upstream,
                                fromList |-> out.fromList, cname |-> out.cname,
                                resolved |-> out.resolved, asked |-> out.asked])]
    /\ UNCHANGED <<ccVars, reloadVars, bodyVars, enf, res, dmq, auxVars>>

InitPick ==
    /\ CcIdle /\ ReloadIdle /\ BodyIdle
    /\ enf = IdleEnf /\ res = IdleRes /\ dmq = IdleDmq /\ AuxIdle
    /\ \E c \in RouterConfigs : rt = [cfg |-> c, routers |-> <<>>, picks |-> <<>>]

NextPick == \E h \in RouterHosts \cup {NoName}, dns \in {"ok", "error"} : Pick(h, dns)

\* picks made one after another on one router
SpecPick == InitPick /\ [][NextPick]_vars

InitRouterReload ==
    /\ CcIdle /\ ReloadIdle /\ BodyIdle
    /\ enf = IdleEnf /\ res = IdleRes /\ dmq = IdleDmq /\ AuxIdle
    /\ rt = [cfg |-> DnsCached, routers |-> <<>>, picks |-> <<>>]

NextRouterReload ==
    \/ Tick
    \/ \E good \in BOOLEAN : EditUpstream(good)
    \/ UpstreamTick
    \/ \E dns \in {"ok", "error"} : Pick("api.customer.com", dns)

\* picks in DNS mode while time passes and the upstream supervisor reloads
SpecRouterReload == InitRouterReload /\ [][NextRouterReload]_vars

\* the picks made for edge key k, in order
RECURSIVE PicksOf(_, _)
PicksOf(ps, k) ==
    IF ps = <<>> THEN <<>>
    ELSE LET n == Len(ps)
             head == PicksOf(SubSeq(ps, 1, n - 1), k)
         IN  IF ps[n].key = k /\ ps[n].fromList THEN Append(head, ps[n].upstream) ELSE head

UpstreamsOf(k) == IF k = "default" THEN rt.cfg.default_upstreams ELSE Tenants[k]

\* C19: sequential picks for one edge key on one router return the
\* upstreams of that key's list in list order, starting with the first and
\* wrapping around; every edge key has its own counter, so picks for another
\* key in between do not advance it.
C19_RoundRobinPerKey ==
    \A k \in EdgeKeys :
        LET got == PicksOf(rt.picks, k)
            ups == UpstreamsOf(k)
        IN  \A i \in 1..Len(got) : got[i] = ups[((i - 1) % Len(ups)) + 1]

\* three requests for api.customer.com get edge key 42 and u1, u2, u1, with
\* a pick for another edge key between them
C19_Witness ==
    /\ Len(rt.picks) = 4
    /\ \A i \in {1, 3, 4} : rt.picks[i].host = "api.customer.com" /\ rt.picks[i].key = "42"
    /\ rt.picks[2].key = "default"
    /\ PicksOf(rt.picks, "42") = <<"u1", "u2", "u1">>

\* C20: the DNS cache of the previous router is carried into the router a
\* reload publishes: a resolution made before the reload and not yet expired
\* is served from the cache after it, without a new DNS lookup.
C20_CacheSurvivesReload ==
    \A i, j \in 1..Len(rt.picks) :
        (/\ i < j
         /\ rt.picks[i].host = rt.picks[j].host
         /\ rt.picks[i].gen # rt.picks[j].gen
         /\ rt.picks[i].resolved
         /\ rt.picks[i].asked
         /\ rt.picks[j].at <= rt.picks[i].at + Secs(rt.cfg.cache_ttl))
            => ~rt.picks[j].asked

----------------------------------------------------------------------------
(* The SNI certificate store (server/certs.rs) *)

\* the bytes of SNI names and directory names: letters of both cases, the
\* dot and a blank
SniBytes == {"a", "b", ".", "A", " "}

RECURSIVE SniTexts(_)
SniTexts(n) ==
    IF n = 0 THEN {<<>>}
    ELSE SniTexts(n - 1) \cup {t \o <<c>> : t \in {u \in SniTexts(n - 1) : Len(u) = n - 1}, c \in SniBytes}

\* str::trim: the blanks at both ends go
RECURSIVE TrimStart(_)
TrimStart(t) == IF t # <<>> /\ Head(t) = " " THEN TrimStart(Tail(t)) ELSE t

RECURSIVE TrimEndMatches(_, _)
TrimEndMatches(t, c) ==
    IF t # <<>> /\ t[Len(t)] = c THEN TrimEndMatches(SubSeq(t, 1, Len(t) - 1), c) ELSE t

Trim(t) == TrimEndMatches(TrimStart(t), " ")

\* normalize_name: s.trim().trim_end_matches('.').to_ascii_lowercase()
NormalizeName(t) ==
    [i \in 1..Len(TrimEndMatches(Trim(t), ".")) |-> Lower(TrimEndMatches(Trim(t), ".")[i])]

\* str::split('.'): the labels, empty ones included
RECURSIVE Split(_, _)
Split(t, cur) ==
    IF t = <<>> THEN <<cur>>
    ELSE IF Head(t) = "." THEN <<cur>> \o Split(Tail(t), <<>>)
    ELSE Split(Tail(t), cur \o <<Head(t)>>)

\* parts[i..].join("."), i counted from 1
RECURSIVE Join(_, _)
Join(parts, i) ==
    IF i > Len(parts) THEN <<>>
    ELSE IF i = Len(parts) THEN parts[i]
    ELSE parts[i] \o <<".">> \o Join(parts, i + 1)

NoCert == [kind |-> "none", key |-> <<>>]
ExactCert(k) == [kind |-> "exact", key |-> k]
WildcardCert(k) == [kind |-> "wildcard", key |-> k]

\* the directories under server/sni and server/wildcard
CertDirs ==
    { [sni |-> {<<"a", ".", "b">>}, wildcard |-> {<<"b">>}],
      [sni |-> {}, wildcard |-> {<<"A", ".", "b">>, <<"b">>}],
      [sni |-> {<<"b">>, <<"b", ".", "A", ".", "b">>}, wildcard |-> {<<"b">>, <<"a">>}] }

\* load_snapshot: the keys of both maps are the normalized directory names
LoadSnapshot(d) ==
    [exact |-> {NormalizeName(n) : n \in d.sni},
     wildcard |-> {NormalizeName(n) : n \in d.wildcard}]

\* the loop of lookup from label i on: the first suffix with a wildcard entry
RECURSIVE WildcardFrom(_, _, _)
WildcardFrom(snap, parts, i) ==
    IF i > Len(parts) THEN NoCert
    ELSE IF Join(parts, i) \in snap.wildcard THEN WildcardCert(Join(parts, i))
    ELSE WildcardFrom(snap, parts, i + 1)

\* lookup whose loop starts at the whole name
CertLookupFromWholeName(snap, sni) ==
    IF NormalizeName(sni) \in snap.exact THEN ExactCert(NormalizeName(sni))
    ELSE IF Len(Split(NormalizeName(sni), <<>>)) < 2 THEN NoCert
    ELSE WildcardFrom(snap, Split(NormalizeName(sni), <<>>), 1)

\* CertStore::lookup
CertLookup(snap, sni) ==
    IF NormalizeName(sni) \in snap.exact THEN ExactCert(NormalizeName(sni))
    ELSE IF Len(Split(NormalizeName(sni), <<>>)) < 2 THEN NoCert
    ELSE WildcardFrom(snap, Split(NormalizeName(sni), <<>>), 2)

\* the TLS callback asks the store for the name the client offered
SniLookup ==
    /\ tls.phase = "new"
    /\ tls' = [tls EXCEPT !.phase = "done", !.result = CertLookup(tls.snap, tls.sni)]
    /\ UNCHANGED <<ccVars, reloadVars, bodyVars, enf, res, dmq, rt, crt, term, pf, nrm, wev, chn, prn, rrp, kq>>

InitCert ==
    /\ CcIdle /\ ReloadIdle /\ BodyIdle
    /\ enf = IdleEnf /\ res = IdleRes /\ dmq = IdleDmq /\ rt = IdleRt
    /\ crt = IdleCs /\ term = IdleTerm /\ pf = IdlePf /\ nrm = IdleNrm /\ wev = IdleWev /\ chn = IdleChn /\ prn = IdlePrn /\ rrp = IdleRrp /\ kq = IdleKq
    /\ \E d \in CertDirs, t \in SniTexts(MaxSni) :
         tls = [phase |-> "new", snap |-> LoadSnapshot(d), sni |-> t, result |-> ""]

NextCert == SniLookup

SpecCert == InitCert /\ [][NextCert]_vars

\* the suffixes of a name that follow one of its dots
DotSuffixes(name) ==
    {SubSeq(name, k + 1, Len(name)) : k \in {j \in 1..Len(name) : name[j] = "."}}

\* the blanks at both ends and the dots at the end removed, in lower case
IsNormalOf(n, t) ==
    \E i \in 1..(Len(t) + 1) :
      \E j \in (i - 1)..Len(t) :
        \E m \in (i - 1)..j :
            /\ \A k \in 1..(i - 1) : t[k] = " "
            /\ \A k \in (j + 1)..Len(t) : t[k] = " "
            /\ j >= i => (t[i] # " " /\ t[j] # " ")
            /\ \A k \in (m + 1)..j : t[k] = "."
            /\ m >= i => t[m] # "."
            /\ Len(n) = m - i + 1
            /\ \A k \in 1..Len(n) : n[k] = Lower(t[i + k - 1])

\* the store of the specification's example, with b for example.com
ExampleCerts == [exact |-> {<<"a", ".", "b">>}, wildcard |-> {<<"b">>}]

\* C21: lookup normalizes the SNI (trim, strip the trailing dots, lower
\* case) and returns the exact entry of that name if there is one; otherwise
\* the wildcard entry of the longest suffix, with at least one leading label
\* dropped, that has one; otherwise none.  With sni/a.b and wildcard/b: a.b is
\* served by the exact entry, b.b and a.a.b by the wildcard entry, a.a by
\* none, and the bare name b is not covered by the wildcard entry.
C21_LookupExactThenLongestWildcard ==
    tls.phase = "done" =>
        /\ \E n \in {NormalizeName(tls.sni)} :
            /\ IsNormalOf(n, tls.sni)
            /\ IF n \in tls.snap.exact THEN tls.result = ExactCert(n)
               ELSE IF DotSuffixes(n) \cap tls.snap.wildcard = {} THEN tls.result = NoCert
               ELSE /\ tls.result.kind = "wildcard"
                    /\ tls.result.key \in DotSuffixes(n) \cap tls.snap.wildcard
                    /\ \A w \in DotSuffixes(n) \cap tls.snap.wildcard :
                          Len(w) <= Len(tls.result.key)
        /\ tls.snap = ExampleCerts =>
            /\ tls.sni = <<"a", ".", "b">> => tls.result = ExactCert(<<"a", ".", "b">>)
            /\ tls.sni = <<"b", ".", "b">> => tls.result = WildcardCert(<<"b">>)
            /\ tls.sni = <<"a", ".", "a", ".", "b">> => tls.result = WildcardCert(<<"b">>)
            /\ tls.sni = <<"a", ".", "a">> => tls.result = NoCert
            /\ tls.sni = <<"b">> => tls.result = NoCert

\* a name two labels below the wildcard suffix, in upper case and with a
\* trailing dot, is served by the wildcard entry where a longer one exists too
C21_Witness ==
    /\ tls.phase = "done"
    /\ tls.snap = [exact |-> {}, wildcard |-> {<<"a", ".", "b">>, <<"b">>}]
    /\ tls.sni = <<"b", ".", "A", ".", "b">>
    /\ tls.result = WildcardCert(<<"a", ".", "b">>)

----------------------------------------------------------------------------
(* Shutdown of the reload supervisors: the select! of every start() *)

AllSups == Sups \cup {"certs"}

\* where supervisor s is: its last outcome, "ticking" inside the tick arm
OutcomeOf(s) == IF s = "certs" THEN crt.outcome ELSE sup[s].outcome

\* a select! whose shutdown arm does not return
AtSelectAfterReturn(s) == s \in term.running /\ OutcomeOf(s) \notin {"ticking", "loaded"}

\* the supervisor is at its select!, no arm taken
AtSelect(s) == s \in term.running \ term.stopped /\ OutcomeOf(s) \notin {"ticking", "loaded"}

\* the server raises the shutdown signal
RaiseShutdown ==
    /\ ~term.signal
    /\ term' = [term EXCEPT !.signal = TRUE]
    /\ UNCHANGED <<ccVars, reloadVars, bodyVars, enf, res, dmq, rt, tls, crt, pf, nrm, wev, chn, prn, rrp, kq>>

\* _ = shutdown.changed() => return
ObserveShutdown(s) ==
    /\ term.signal
    /\ AtSelect(s)
    /\ term' = [term EXCEPT !.stopped = @ \cup {s}]
    /\ UNCHANGED <<ccVars, reloadVars, bodyVars, enf, res, dmq, rt, tls, crt, pf, nrm, wev, chn, prn, rrp, kq>>

\* _ = ticker.tick() => ...: select! takes the tick arm, whether or not the
\* signal is raised (the arms are polled in random order)
TakeTick(s) ==
    /\ AtSelect(s)
    /\ IF s = "certs"
       THEN crt' = [crt EXCEPT !.outcome = "ticking"] /\ UNCHANGED sup
       ELSE sup' = [sup EXCEPT ![s].outcome = "ticking"] /\ UNCHANGED crt
    /\ UNCHANGED <<rulesFile, upstreamFile, dmFile, polDir, edits, rulesPub, routerPub, policyPub>>
    /\ UNCHANGED <<ccVars, bodyVars, enf, res, dmq, rt, tls, term, pf, nrm, wev, chn, prn, rrp, kq>>

\* CertUpdater::start, the tick arm: compute_fingerprint, compare with
\* last_fp, reload, and on Ok set last_fp and swap
CertTickResult(c, fpOk, loadOk) ==
    IF ~fpOk THEN [c EXCEPT !.outcome = "meta_error"]
    ELSE IF c.fp = c.last_fp THEN [c EXCEPT !.outcome = "unchanged"]
    ELSE IF ~loadOk THEN [c EXCEPT !.outcome = "io"]
    ELSE [c EXCEPT !.outcome = "ok", !.last_fp = c.fp, !.pub = c.fp]

CertTick ==
    /\ crt.outcome = "ticking"
    /\ \E fpOk, loadOk \in BOOLEAN : crt' = CertTickResult(crt, fpOk, loadOk)
    /\ UNCHANGED <<ccVars, reloadVars, bodyVars, enf, res, dmq, rt, tls, term, pf, nrm, wev, chn, prn, rrp, kq>>

\* the tick arms of the other supervisors, entered from the select!
RuleArm == sup["rules"].outcome = "ticking" /\ RuleTick
UpstreamArm == sup["upstream"].outcome = "ticking" /\ UpstreamTick
DomainMapArm == sup["domain_map"].outcome = "ticking" /\ DomainMapTick
PolicyDirArm == sup["policies"].outcome = "ticking" /\ PolicyDirTick

\* every configuration file was changed after main() loaded it; up to
\* MaxRunning of the supervisors are started
InitShutdown ==
    /\ CcIdle /\ BodyIdle
    /\ enf = IdleEnf /\ res = IdleRes /\ dmq = IdleDmq /\ rt = IdleRt /\ tls = IdleTls /\ pf = IdlePf /\ nrm = IdleNrm /\ wev = IdleWev /\ chn = IdleChn /\ prn = IdlePrn /\ rrp = IdleRrp /\ kq = IdleKq
    /\ rulesFile = [InitialFile EXCEPT !.mtime = 1]
    /\ upstreamFile = [InitialFile EXCEPT !.mtime = 1]
    /\ dmFile = [InitialDm EXCEPT !.mtime = 1]
    /\ polDir = [InitialDir EXCEPT !.sig = 1]
    /\ edits = 0
    /\ rulesPub = 0
    /\ routerPub = 0
    /\ policyPub = [LoadFromFiles(InitialDm, InitialDir, TRUE, TRUE).val EXCEPT !.cc = InitialCc]
    /\ sup = [s \in Sups |-> IdleSup]
    /\ crt = [IdleCs EXCEPT !.fp = 1]
    /\ \E r \in SUBSET AllSups :
          /\ r # {} /\ Cardinality(r) <= MaxRunning
          /\ term = [signal |-> FALSE, running |-> r, stopped |-> {}]

NextShutdown ==
    \/ RaiseShutdown
    \/ \E s \in AllSups : ObserveShutdown(s)
    \/ \E s \in AllSups : TakeTick(s)
    \/ RuleArm
    \/ UpstreamArm
    \/ DomainMapArm
    \/ PolicyDirArm
    \/ \E s \in {"domain_map", "policies"} : PolicySwap(s)
    \/ CertTick

\* A tick arm that was entered runs to its end, and a select! at which the
\* shutdown arm is ready again and again takes it at some point: the arms of
\* select! are polled in random order.
FairShutdown ==
    /\ \A s \in AllSups : SF_vars(ObserveShutdown(s))
    /\ WF_vars(RuleArm) /\ WF_vars(UpstreamArm) /\ WF_vars(DomainMapArm)
    /\ WF_vars(PolicyDirArm) /\ WF_vars(CertTick)
    /\ \A s \in {"domain_map", "policies"} : WF_vars(PolicySwap(s))

SpecShutdown == InitShutdown /\ [][NextShutdown]_vars /\ FairShutdown

\* what supervisor s owns: its locals and the snapshot cell it publishes to
OwnedBy(s) ==
    IF s = "certs" THEN <<crt.last_fp, crt.outcome, crt.pub>>
    ELSE IF s = "rules" THEN <<sup[s], rulesPub>>
    ELSE IF s = "upstream" THEN <<sup[s], routerPub>>
    ELSE <<sup[s]>>

\* C22: each reload supervisor that runs terminates at some point once the
\* shutdown signal has been raised, whether it was waiting at its select! or
\* in the middle of a reload attempt, and after it has observed the signal it
\* takes no step and publishes no snapshot.
C22_SupervisorsTerminate ==
    /\ \A s \in AllSups : (term.signal /\ s \in term.running) ~> (s \in term.stopped)
    /\ [][\A s \in AllSups : s \in term.stopped => OwnedBy(s)' = OwnedBy(s)]_vars
    /\ [][AllSups \ term.running \subseteq term.stopped
            => <<rulesPub, routerPub, policyPub, crt.pub>>' = <<rulesPub, routerPub, policyPub, crt.pub>>]_vars

\* the signal is raised while PolicyDirUpdater is between load_from_files
\* and its swap, and DomainMapUpdater has returned after publishing
C22_Witness ==
    /\ term.signal
    /\ term.running = {"domain_map", "policies"}
    /\ term.stopped = {"domain_map"}
    /\ sup["domain_map"].outcome = "ok"
    /\ sup["policies"].outcome = "loaded"

----------------------------------------------------------------------------
(* Loading a rule of a policy file: policy/protection/types.rs, manager.rs *)

\* the variants of MatchExpr that carry a key, in declaration order (Any, the
\* first variant, is a unit variant and takes no mapping)
MatchVariants ==
    <<"path_prefix", "method_in", "host_in", "header_exists", "header_equals",
      "header_regex", "and", "or", "not">>

\* the variants of ActionSpec, in declaration order
ActionVariants == <<"allow", "log", "block", "challenge", "cc">>

RangeOf(seq) == {seq[i] : i \in 1..Len(seq)}

\* #[serde(untagged)]: the variants are tried in declaration order and the
\* first that deserializes is taken; a struct variant deserializes from a
\* mapping that holds its field, the other keys of the mapping are ignored
\* (no deny_unknown_fields).  The values under the keys are well-typed.
RECURSIVE Untagged(_, _, _)
Untagged(variants, keys, i) ==
    IF i > Len(variants) THEN Err("parse")
    ELSE IF variants[i] \in keys THEN Ok(variants[i])
    ELSE Untagged(variants, keys, i + 1)

\* RuleSpec.match_expr: #[serde(rename = "match", default)]
ParseMatch(present, keys) ==
    IF ~present THEN Ok("any") ELSE Untagged(MatchVariants, keys, 1)

\* RuleSpec.action
ParseAction(keys) == Untagged(ActionVariants, keys, 1)

\* serde_yaml::from_slice of the file, then compile_policy: the rule that
\* enters the compiled policy, or the error that rejects the file
LoadRule(present, mkeys, akeys) ==
    IF ~ParseMatch(present, mkeys).ok THEN Err("parse")
    ELSE IF ~ParseAction(akeys).ok THEN Err("parse")
    ELSE Ok([matcher |-> ParseMatch(present, mkeys).val, action |-> ParseAction(akeys).val])

\* load_and_compile_policies_dir reads one file
LoadPolicyFile ==
    /\ pf.phase = "new"
    /\ pf' = [pf EXCEPT !.phase = "done",
                        !.result = LoadRule(pf.match_present, pf.match_keys, pf.action_keys)]
    /\ UNCHANGED <<ccVars, reloadVars, bodyVars, enf, res, dmq, rt, tls, crt, term, nrm, wev, chn, prn, rrp, kq>>

\* a rule whose match and action mappings hold up to MaxVariantKeys keys each
InitPolicyFile ==
    /\ CcIdle /\ ReloadIdle /\ BodyIdle
    /\ enf = IdleEnf /\ res = IdleRes /\ dmq = IdleDmq /\ rt = IdleRt
    /\ tls = IdleTls /\ crt = IdleCs /\ term = IdleTerm /\ nrm = IdleNrm /\ wev = IdleWev /\ chn = IdleChn /\ prn = IdlePrn /\ rrp = IdleRrp /\ kq = IdleKq
    /\ \E present \in BOOLEAN :
         \E mk \in SUBSET RangeOf(MatchVariants), ak \in SUBSET RangeOf(ActionVariants) :
            /\ Cardinality(mk) <= MaxVariantKeys
            /\ Cardinality(ak) <= MaxVariantKeys
            /\ ~present => mk = {}
            /\ pf = [phase |-> "new", match_present |-> present, match_keys |-> mk,
                     action_keys |-> ak, result |-> Err("")]

NextPolicyFile == LoadPolicyFile

SpecPolicyFile == InitPolicyFile /\ [][NextPolicyFile]_vars

\* C23: a policy file in which a match expression or an action carries more
\* than one variant key at the same level is rejected when it is loaded; it is
\* never compiled into a rule that uses one of the keys and ignores the other.
C23_SeveralVariantKeysRejected ==
    (/\ pf.phase = "done"
     /\ \/ Cardinality(pf.match_keys) > 1
        \/ Cardinality(pf.action_keys) > 1)
        => ~pf.result.ok

----------------------------------------------------------------------------
(* Host and path normalization: waf/context.rs, waf/normalizer.rs *)

\* the bytes of a Host header: letters of both cases, the dot, the colon, a
\* digit, the opening bracket and a blank
AuthorityBytes == {"a", "A", ".", ":", "8", "[", " "}

RECURSIVE AuthorityTexts(_)
AuthorityTexts(n) ==
    IF n = 0 THEN {<<>>}
    ELSE AuthorityTexts(n - 1)
         \cup {t \o <<c>> : t \in {u \in AuthorityTexts(n - 1) : Len(u) = n - 1},
                           c \in AuthorityBytes}

IsAsciiDigit(c) == c \in {"0", "1", "2", "3", "4", "5", "6", "7", "8", "9"}

\* str::rfind(':'): the last position of the colon, 0 when there is none
Rfind(h, c) ==
    IF \E i \in 1..Len(h) : h[i] = c
    THEN CHOOSE i \in 1..Len(h) : h[i] = c /\ \A j \in (i + 1)..Len(h) : h[j] # c
    ELSE 0

\* the port test of normalize_host on h, already trimmed and lower-cased
StripPortOf(h) ==
    IF Rfind(h, ":") # 0
       /\ Len(h) - Rfind(h, ":") >= 1
       /\ \A j \in (Rfind(h, ":") + 1)..Len(h) : IsAsciiDigit(h[j])
    THEN SubSeq(h, 1, Rfind(h, ":") - 1)
    ELSE h

\* normalize_host (waf/context.rs)
NormalizeHost(host) ==
    IF NormalizeName(host) # <<>> /\ Head(NormalizeName(host)) = "["
    THEN NormalizeName(host)
    ELSE StripPortOf(NormalizeName(host))

\* extract_host normalizes the header; the result is normalized once more
NormalizeHostOnce ==
    /\ nrm.phase = "host"
    /\ nrm' = [nrm EXCEPT !.phase = "host_once", !.once = NormalizeHost(nrm.input)]
    /\ UNCHANGED <<ccVars, reloadVars, bodyVars, enf, res, dmq, rt, tls, crt, term, pf, wev, chn, prn, rrp, kq>>

NormalizeHostTwice ==
    /\ nrm.phase = "host_once"
    /\ nrm' = [nrm EXCEPT !.phase = "host_twice", !.twice = NormalizeHost(nrm.once)]
    /\ UNCHANGED <<ccVars, reloadVars, bodyVars, enf, res, dmq, rt, tls, crt, term, pf, wev, chn, prn, rrp, kq>>

InitNormHost ==
    /\ CcIdle /\ ReloadIdle /\ BodyIdle
    /\ enf = IdleEnf /\ res = IdleRes /\ dmq = IdleDmq /\ rt = IdleRt
    /\ tls = IdleTls /\ crt = IdleCs /\ term = IdleTerm /\ pf = IdlePf /\ wev = IdleWev /\ chn = IdleChn /\ prn = IdlePrn /\ rrp = IdleRrp /\ kq = IdleKq
    /\ \E t \in AuthorityTexts(MaxAuthority) :
         nrm = [phase |-> "host", input |-> t, once |-> <<>>, twice |-> <<>>]

NextNormHost == NormalizeHostOnce \/ NormalizeHostTwice

SpecNormHost == InitNormHost /\ [][NextNormHost]_vars

\* the text ends with a colon followed by one or more digits
EndsWithPort(t) ==
    \E i \in 1..(Len(t) - 1) :
        t[i] = ":" /\ \A j \in (i + 1)..Len(t) : IsAsciiDigit(t[j])

\* the input is a bracketed literal, blanks before it apart
Bracketed(t) == TrimStart(t) # <<>> /\ Head(TrimStart(t)) = "["

\* C24: for every non-bracketed input normalize_host returns the lower-cased
\* host with both the trailing dot and a trailing ":<digits>" port removed:
\* the result never ends with '.', never ends with ':' followed by digits, and
\* normalizing it again changes nothing; for an input that starts with '[' it
\* returns the lower-cased text with the bracketed literal and any port kept.
C24_NormalizeHostNormalForm ==
    nrm.phase = "host_twice" =>
        IF Bracketed(nrm.input)
        THEN /\ StartsWith(LowerAll(TrimStart(nrm.input)), nrm.once)
             /\ \A i \in (Len(nrm.once) + 1)..Len(TrimStart(nrm.input)) :
                   TrimStart(nrm.input)[i] \in {".", " "}
        ELSE /\ nrm.once = <<>> \/ nrm.once[Len(nrm.once)] # "."
             /\ ~EndsWithPort(nrm.once)
             /\ nrm.twice = nrm.once
             /\ \A i \in 1..Len(nrm.once) : nrm.once[i] = Lower(nrm.once[i])

\* the bytes of a request path
PathBytes == {"/", "a", "b"}

RECURSIVE PathTexts(_)
PathTexts(n) ==
    IF n = 0 THEN {<<>>}
    ELSE PathTexts(n - 1)
         \cup {t \o <<c>> : t \in {u \in PathTexts(n - 1) : Len(u) = n - 1}, c \in PathBytes}

\* a loop that drops the second slash of a pair and then starts afresh
RECURSIVE CollapsePairs(_, _, _)
CollapsePairs(raw, out, prev_slash) ==
    IF raw = <<>> THEN out
    ELSE IF Head(raw) = "/"
         THEN IF prev_slash THEN CollapsePairs(Tail(raw), out, FALSE)
              ELSE CollapsePairs(Tail(raw), out \o <<"/">>, TRUE)
         ELSE CollapsePairs(Tail(raw), out \o <<Head(raw)>>, FALSE)

\* the loop of normalize_path: for ch in raw.chars()
RECURSIVE CollapseSlashes(_, _, _)
CollapseSlashes(raw, out, prev_slash) ==
    IF raw = <<>> THEN out
    ELSE IF Head(raw) = "/"
         THEN IF prev_slash THEN CollapseSlashes(Tail(raw), out, TRUE)
              ELSE CollapseSlashes(Tail(raw), out \o <<"/">>, TRUE)
         ELSE CollapseSlashes(Tail(raw), out \o <<Head(raw)>>, FALSE)

\* Normalizer::normalize_path
NormalizePath(raw) ==
    IF CollapseSlashes(raw, <<>>, FALSE) = <<>> THEN <<"/">>
    ELSE CollapseSlashes(raw, <<>>, FALSE)

\* from_session normalizes the raw path; the result is normalized once more
NormalizePathOnce ==
    /\ nrm.phase = "path"
    /\ nrm' = [nrm EXCEPT !.phase = "path_once", !.once = NormalizePath(nrm.input)]
    /\ UNCHANGED <<ccVars, reloadVars, bodyVars, enf, res, dmq, rt, tls, crt, term, pf, wev, chn, prn, rrp, kq>>

NormalizePathTwice ==
    /\ nrm.phase = "path_once"
    /\ nrm' = [nrm EXCEPT !.phase = "path_twice", !.twice = NormalizePath(nrm.once)]
    /\ UNCHANGED <<ccVars, reloadVars, bodyVars, enf, res, dmq, rt, tls, crt, term, pf, wev, chn, prn, rrp, kq>>

InitNormPath ==
    /\ CcIdle /\ ReloadIdle /\ BodyIdle
    /\ enf = IdleEnf /\ res = IdleRes /\ dmq = IdleDmq /\ rt = IdleRt
    /\ tls = IdleTls /\ crt = IdleCs /\ term = IdleTerm /\ pf = IdlePf /\ wev = IdleWev /\ chn = IdleChn /\ prn = IdlePrn /\ rrp = IdleRrp /\ kq = IdleKq
    /\ \E t \in PathTexts(MaxPath) :
         nrm = [phase |-> "path", input |-> t, once |-> <<>>, twice |-> <<>>]

NextNormPath == NormalizePathOnce \/ NormalizePathTwice

SpecNormPath == InitNormPath /\ [][NextNormPath]_vars

\* C25: normalize_path is idempotent, its result is never empty, holds no
\* two consecutive '/' and begins with '/' whenever the input does.
C25_NormalizePathIdempotent ==
    /\ nrm.phase \in {"path_once", "path_twice"} =>
          /\ nrm.once # <<>>
          /\ \A i \in 1..(Len(nrm.once) - 1) : ~(nrm.once[i] = "/" /\ nrm.once[i + 1] = "/")
          /\ (nrm.input # <<>> /\ Head(nrm.input) = "/") => Head(nrm.once) = "/"
    /\ nrm.phase = "path_twice" => nrm.twice = nrm.once

\* a path with a run of three slashes and a run of two has been normalized
\* twice
C25_Witness ==
    /\ nrm.phase = "path_twice"
    /\ nrm.input = <<"/", "/", "/", "a", "/", "/">>
    /\ nrm.once = <<"/", "a", "/">>
    /\ nrm.twice = <<"/", "a", "/">>

----------------------------------------------------------------------------
(* eval_request_headers over arbitrary rule orders: waf/engine.rs *)

\* the rules a ruleset is made of: deciding and body rules, with and
\* without header conditions
RulePool ==
    { [id |-> "allow-get", action |-> "allow", methods |-> Some({"GET"}),
       path_prefix |-> Absent, uri_ac |-> Absent, body_ac |-> Absent],
      [id |-> "block-a", action |-> "block", methods |-> Absent,
       path_prefix |-> Some({<<"/", "a">>}), uri_ac |-> Absent, body_ac |-> Absent],
      [id |-> "challenge-uri", action |-> "challenge", methods |-> Absent,
       path_prefix |-> Absent, uri_ac |-> Some({<<"/", "B">>}), body_ac |-> Absent],
      [id |-> "body-any", action |-> "block", methods |-> Absent,
       path_prefix |-> Absent, uri_ac |-> Absent, body_ac |-> Some({<<"a", "b">>})],
      [id |-> "body-post", action |-> "challenge", methods |-> Some({"POST"}),
       path_prefix |-> Absent, uri_ac |-> Absent, body_ac |-> Some({<<"b">>})],
      [id |-> "allow-all", action |-> "allow", methods |-> Absent,
       path_prefix |-> Absent, uri_ac |-> Absent, body_ac |-> Absent] }

RECURSIVE RuleSeqs(_)
RuleSeqs(n) ==
    IF n = 0 THEN {<<>>}
    ELSE RuleSeqs(n - 1)
         \cup {t \o <<r>> : t \in {u \in RuleSeqs(n - 1) : Len(u) = n - 1}, r \in RulePool}

\* WafEngine::eval_request_headers on the ruleset of the snapshot
EvalHeaders ==
    /\ wev.phase = "new"
    /\ wev' = [wev EXCEPT !.phase = "done", !.out = EvalRequestHeaders(wev.rules, wev.ctx)]
    /\ UNCHANGED <<ccVars, reloadVars, bodyVars, enf, res, dmq, rt, tls, crt, term, pf, nrm, chn, prn, rrp, kq>>

InitWafEval ==
    /\ CcIdle /\ ReloadIdle /\ BodyIdle
    /\ enf = IdleEnf /\ res = IdleRes /\ dmq = IdleDmq /\ rt = IdleRt
    /\ tls = IdleTls /\ crt = IdleCs /\ term = IdleTerm /\ pf = IdlePf /\ nrm = IdleNrm /\ chn = IdleChn /\ prn = IdlePrn /\ rrp = IdleRrp /\ kq = IdleKq
    /\ \E rs \in RuleSeqs(MaxRules), c \in Contexts :
         wev = [IdleWev EXCEPT !.phase = "new", !.rules = rs, !.ctx = c]

NextWafEval == EvalHeaders

SpecWafEval == InitWafEval /\ [][NextWafEval]_vars

\* the rules whose methods, path_prefix and uri_ac conditions the request meets
Passing(rules, ctx) == {i \in 1..Len(rules) : HeadersPass(rules[i], ctx)}

\* the first passing rule without body_ac; Len(rules) + 1 when there is none
Decider(rules, ctx) ==
    IF \E i \in Passing(rules, ctx) : ~rules[i].body_ac.some
    THEN CHOOSE i \in Passing(rules, ctx) :
            /\ ~rules[i].body_ac.some
            /\ \A j \in Passing(rules, ctx) : ~rules[j].body_ac.some => i <= j
    ELSE Len(rules) + 1

\* the sequence lists exactly the members of S, in ascending order
ListsAscending(seq, S) ==
    /\ {seq[i] : i \in 1..Len(seq)} = S
    /\ \A i, j \in 1..Len(seq) : i < j => seq[i] < seq[j]

\* C26: eval_request_headers walks the rules in order and skips a rule whose
\* methods, path_prefix or uri_ac condition fails; a passing rule with body_ac
\* is appended to both deferred lists; the first passing rule without body_ac
\* ends the evaluation with its action as the decision, action allow included,
\* after which no later rule blocks or is deferred.  The deferred lists hold
\* exactly the passing body rules that precede the deciding rule, and the two
\* lists are equal.
C26_FirstDecidingRuleWins ==
    wev.phase = "done" =>
        /\ wev.out.req_body_rules = wev.out.resp_body_rules
        /\ ListsAscending(wev.out.req_body_rules,
                          {i \in Passing(wev.rules, wev.ctx) :
                              /\ wev.rules[i].body_ac.some
                              /\ i < Decider(wev.rules, wev.ctx)})
        /\ IF Decider(wev.rules, wev.ctx) > Len(wev.rules)
           THEN wev.out.decision = Allow
           ELSE \E r \in {wev.rules[Decider(wev.rules, wev.ctx)]} :
                  /\ wev.out.decision.kind = r.action
                  /\ r.action = "allow" => wev.out.decision = Allow
                  /\ r.action # "allow" =>
                        wev.out.decision.rule_id = r.id /\ wev.out.decision.status = 403

\* a body rule is deferred, then an allow rule decides, although a block rule
\* and a body rule that the request meets come after it
C26_Witness ==
    /\ wev.phase = "done"
    /\ wev.ctx = [method |-> "GET", path |-> <<"/", "a">>]
    /\ Len(wev.rules) = 3
    /\ wev.rules[1].id = "body-any"
    /\ wev.rules[2].id = "allow-get"
    /\ wev.rules[3].id = "block-a"
    /\ wev.out.decision = Allow
    /\ wev.out.req_body_rules = <<1>>

----------------------------------------------------------------------------
(* Cc rules inside eval_rules (SpecEnforce) *)

\* the rule of a list with the given id
RuleOf(rules, id) == CHOOSE r \in {rules[i] : i \in 1..Len(rules)} : r.id = id

\* what the limiter answered to the rule's check in the last request: the
\* key holds the rule's id, so no other rule of the policy touches the entry
LimiterHit(r) ==
    CheckOutcome(ReadEntry(enf.before, LimiterKey(r.id, BuildKey(r.action.key_parts, enf.ctx)), now),
                 now, r.action, r.id).hit

\* the lists of the last request's policy with the rules executed in each
LastWalks ==
    {<<enf.policy.precise, enf.precise>>, <<enf.policy.base, enf.base>>}

\* C27: for a matching rule with a Cc action, when the limiter returns no hit
\* the rule yields no decision and the evaluation goes on; when it returns a
\* hit and on_limit is Log the request is not stopped and the evaluation goes
\* on with the next rule; when it returns a hit and on_limit is Block or
\* Challenge the engine returns that terminal decision with the on_limit
\* status, the rule's id and the reason "<limiter-reason>; <on_limit-reason>".
C27_CcRuleOutcome ==
    enf.n > 0 =>
        \A w \in LastWalks :
            \A j \in 1..Len(w[2]) :
                \E r \in {RuleOf(w[1], w[2][j])} :
                    r.action.kind = "cc" =>
                        IF LimiterHit(r) = NoHit \/ r.action.on_limit.kind = "log"
                        THEN /\ enf.decision.rule_id # r.id
                             /\ j = Len(w[2]) => w[2] = MatchingIds(w[1], enf.ctx)
                        ELSE /\ j = Len(w[2])
                             /\ enf.decision.kind = r.action.on_limit.kind
                             /\ enf.decision.kind \in {"block", "challenge"}
                             /\ enf.decision.status = r.action.on_limit.status
                             /\ enf.decision.rule_id = r.id
                             /\ enf.decision.hit = LimiterHit(r)
                             /\ enf.decision.reason = r.action.on_limit.reason

\* the third request of one method: the Cc rule finds its entry blocked and
\* its on_limit Challenge ends the evaluation before the block rule
C27_Witness ==
    /\ enf.n = 3
    /\ enf.policy.id = "p-cc"
    /\ enf.ctx.path = <<"/", "b">>
    /\ enf.precise = <<"cc-method">>
    /\ enf.decision.kind = "challenge"
    /\ enf.decision.status = 401
    /\ enf.decision.hit.kind = "blocked"

\* a Cc rule with on_limit Log has a hit and the rule after it decides
C27_LogWitness ==
    /\ enf.n > 0
    /\ enf.policy.id = "p-cc"
    /\ enf.base = <<"cc-path-log", "challenge-bot">>
    /\ LimiterHit(RuleOf(enf.policy.base, "cc-path-log")) # NoHit
    /\ enf.decision.rule_id = "challenge-bot"

----------------------------------------------------------------------------
(* The tail the body filters retain: server/proxy.rs *)

\* one request whose body, or whose response, is up to MaxBody bytes long,
\* against a ruleset that is not reloaded
InitScan ==
    /\ CcIdle
    /\ FilesIdle
    /\ OtherIdle
    /\ rulesPub \in RulesetIds
    /\ \E c \in Contexts, b \in Texts(MaxBody), r \in Texts(MaxBody) :
          /\ b = <<>> \/ r = <<>>
          /\ req = [NewReq(c, b) EXCEPT !.resp_rest = r]

SpecScan == InitScan /\ [][NextResp]_vars

\* ... and while the rule supervisor may publish another ruleset
NextScanReload == NextResp \/ \E j \in RulesetIds : SwapRules(j)

SpecScanReload == InitScan /\ [][NextScanReload]_vars

\* the longest pattern of a rule, 0 for a rule without body patterns
LongestPattern(rule) ==
    IF ~rule.body_ac.some \/ rule.body_ac.v = {} THEN 0
    ELSE CHOOSE n \in {Len(p) : p \in rule.body_ac.v} : \A p \in rule.body_ac.v : Len(p) <= n

\* keep of the claim: the largest (longest pattern - 1) over the deferred rules
KeepFor(idxs) ==
    IF \A j \in 1..Len(idxs) : idxs[j] > Len(Rulesets[rulesPub]) THEN 0
    ELSE CHOOSE n \in 0..MaxBody :
            /\ \E j \in 1..Len(idxs) :
                  /\ idxs[j] <= Len(Rulesets[rulesPub])
                  /\ n = Max(LongestPattern(Rulesets[rulesPub][idxs[j]]) - 1, 0)
            /\ \A j \in 1..Len(idxs) :
                  idxs[j] <= Len(Rulesets[rulesPub])
                     => LongestPattern(Rulesets[rulesPub][idxs[j]]) - 1 <= n

\* the last keep bytes of previous tail + chunk, all of it when not longer
TailOf(tail, chunk, keep) ==
    [i \in 1..(IF Len(tail) + Len(chunk) > keep THEN keep ELSE Len(tail) + Len(chunk))
        |-> (tail \o chunk)[i + (IF Len(tail) + Len(chunk) > keep
                                 THEN Len(tail) + Len(chunk) - keep ELSE 0)]]

\* C28: after every processed body chunk that produced no match, the retained
\* tail is the last keep bytes of (previous tail + chunk), or the whole of it
\* when it is not longer than keep, keep being the largest (longest pattern
\* length - 1) over the deferred rules; so the tail is never longer than keep,
\* whatever the number and sizes of the chunks, and no tail is retained when
\* keep is 0.  Request and response bodies alike.
C28_TailIsLastKeepBytes ==
    /\ [][(/\ req'.seen # req.seen
           /\ ~req.blocked /\ ~req'.blocked
           /\ req.req_body_rules # <<>>)
            => /\ req'.req_tail =
                     TailOf(req.req_tail, SubSeq(req'.seen, Len(req.seen) + 1, Len(req'.seen)),
                            KeepFor(req.req_body_rules))
               /\ Len(req'.req_tail) <= KeepFor(req.req_body_rules)]_vars
    /\ [][(/\ req'.resp_seen # req.resp_seen
           /\ ~req.blocked /\ ~req'.blocked
           /\ req.resp_body_rules # <<>>)
            => /\ req'.resp_tail =
                     TailOf(req.resp_tail,
                            SubSeq(req'.resp_seen, Len(req.resp_seen) + 1, Len(req'.resp_seen)),
                            KeepFor(req.resp_body_rules))
               /\ Len(req'.resp_tail) <= KeepFor(req.resp_body_rules)]_vars

----------------------------------------------------------------------------
(* What a pick returns: upstream/router.rs *)

\* the elements of a list
Elements(list) == {list[i] : i \in 1..Len(list)}

\* the tenant id the resolved CNAME of a pick yields, NoName when the request
\* had no host, the resolution gave no CNAME or the regex does not capture
TenantOfPick(p) ==
    IF p.host = NoName \/ ~p.resolved \/ p.cname = NoName THEN NoName
    ELSE TenantFromCname(p.cname)

\* the list a pick selects: the tenant's when the tenants map has the id
SelectedList(p) ==
    IF TenantOfPick(p) \in DOMAIN Tenants THEN Tenants[TenantOfPick(p)]
    ELSE rt.cfg.default_upstreams

\* C29: a pick returns (tenant id, an element of the tenant's list) when the
\* resolved CNAME yields a tenant id that the tenants map has with a
\* non-empty list; edge key "default" with an element of the default list
\* when the host is absent, has no CNAME, the regex does not capture or the
\* tenant id is unknown; the first default upstream when the selected list is
\* empty; and the empty string exactly when the selected list and the default
\* list are both empty.
C29_PickSelectsTenantOrDefault ==
    \A i \in 1..Len(rt.picks) :
        LET p == rt.picks[i]
            tenant == TenantOfPick(p)
            defaults == rt.cfg.default_upstreams
        IN  /\ (tenant \in DOMAIN Tenants /\ Tenants[tenant] # <<>>)
                  => p.key = tenant /\ p.upstream \in Elements(Tenants[tenant])
            /\ tenant \notin DOMAIN Tenants
                  => /\ p.key = "default"
                     /\ defaults # <<>> => p.upstream \in Elements(defaults)
            /\ (SelectedList(p) = <<>> /\ defaults # <<>>) => p.upstream = defaults[1]
            /\ p.upstream = "" <=> (SelectedList(p) = <<>> /\ defaults = <<>>)

\* a request without a host and one whose CNAME the regex does not capture
\* take d1 and d2 of the default list; d.customer.com, whose tenant 9 has an
\* empty list, then gets the first default upstream, and api.customer.com its
\* tenant's first upstream
C29_Witness ==
    /\ Len(rt.picks) = 4
    /\ rt.picks[1].host = NoName /\ rt.picks[1].key = "default" /\ rt.picks[1].upstream = "d1"
    /\ rt.picks[2].host = "e.customer.com" /\ rt.picks[2].cname = "www.other"
    /\ rt.picks[2].key = "default" /\ rt.picks[2].upstream = "d2"
    /\ rt.picks[3].host = "d.customer.com" /\ rt.picks[3].key = "9"
    /\ rt.picks[3].upstream = "d1"
    /\ rt.picks[4].host = "api.customer.com" /\ rt.picks[4].key = "42"
    /\ rt.picks[4].upstream = "u1"

\* with an empty default list a pick for tenant 9 gives the empty string
C29_EmptyWitness ==
    /\ rt.cfg.default_upstreams = <<>>
    /\ \E i \in 1..Len(rt.picks) : rt.picks[i].key = "9" /\ rt.picks[i].upstream = ""
    /\ \E i \in 1..Len(rt.picks) : rt.picks[i].key = "default" /\ rt.picks[i].upstream = ""

----------------------------------------------------------------------------
(* The CNAME cache of a router in DNS mode: upstream/router.rs *)

\* the DNS configurations, with and without a cache
DnsConfigs == {c \in RouterConfigs : c.mode = "dns"}

InitCache ==
    /\ CcIdle /\ ReloadIdle /\ BodyIdle
    /\ enf = IdleEnf /\ res = IdleRes /\ dmq = IdleDmq /\ AuxIdle
    /\ \E c \in DnsConfigs : rt = [cfg |-> c, routers |-> <<>>, picks |-> <<>>]

NextCache ==
    \/ Tick
    \/ \E dns \in DnsAnswers : Pick("api.customer.com", dns)

\* resolutions of one host on one router while time passes and the DNS
\* answers, fails or loses the record
SpecCache == InitCache /\ [][NextCache]_vars

\* pick i made a DNS lookup that completed without error
Looked(i) == rt.picks[i].asked /\ rt.picks[i].resolved

\* pick j resolves the host of pick i on the same router, later
SameHostLater(i, j) ==
    /\ i < j
    /\ rt.picks[i].host = rt.picks[j].host
    /\ rt.picks[i].gen = rt.picks[j].gen

\* the instant the result of pick i is cached through
CachedThrough(i) == rt.picks[i].at + Secs(rt.cfg.cache_ttl)

\* the cache entry of a router for the host of pick i
EntryOf(i) == InnerOf(rt.picks[i].gen).cname_cache[rt.picks[i].host]

\* C30: in DNS mode with cache_ttl > 0, once a resolution of a host completed
\* without error (with a CNAME or with none), every resolve of that host on
\* the same router up to and including the instant now + cache_ttl returns the
\* cached result without a DNS lookup; the first resolve after that instant
\* makes a lookup and overwrites the entry; a resolution that ends in an error
\* is not cached; with cache_ttl = 0 every resolve makes a lookup.
C30_CacheServesUntilExpiry ==
    /\ rt.cfg.cache_ttl > 0 =>
         \A i, j \in 1..Len(rt.picks) :
            (Looked(i) /\ SameHostLater(i, j)) =>
               /\ rt.picks[j].at <= CachedThrough(i)
                    => /\ ~rt.picks[j].asked
                       /\ rt.picks[j].resolved
                       /\ rt.picks[j].cname = rt.picks[i].cname
               /\ (/\ rt.picks[j].at > CachedThrough(i)
                   /\ \A k \in (i + 1)..(j - 1) : rt.picks[k].at <= CachedThrough(i))
                    => /\ rt.picks[j].asked
                       /\ (rt.picks[j].resolved /\ j = Len(rt.picks))
                            => EntryOf(j) = [present |-> TRUE, expires |-> CachedThrough(j),
                                             cname |-> rt.picks[j].cname]
    /\ rt.cfg.cache_ttl > 0 =>
         \A j \in 1..Len(rt.picks) :
            (rt.picks[j].asked /\ ~rt.picks[j].resolved /\ j = Len(rt.picks)) =>
               EntryOf(j) = IF j = 1 \/ \A i \in 1..(j - 1) : ~Looked(i)
                            THEN NoCacheEntry
                            ELSE LET i == CHOOSE i \in 1..(j - 1) :
                                            Looked(i) /\ \A k \in (i + 1)..(j - 1) : ~Looked(k)
                                 IN  [present |-> TRUE, expires |-> CachedThrough(i),
                                      cname |-> rt.picks[i].cname]
    /\ rt.cfg.cache_ttl = 0 =>
         \A j \in 1..Len(rt.picks) : rt.picks[j].asked /\ EntryOf(j) = NoCacheEntry

\* a lookup that found the CNAME is served from the cache at the instant it is
\* cached through, although the DNS has lost the record by then; the resolve
\* after that instant asks again, fails and leaves the entry; the next one
\* asks again and caches that there is no CNAME
C30_Witness ==
    /\ rt.cfg.cache_ttl > 0
    /\ Len(rt.picks) = 4
    /\ Looked(1) /\ rt.picks[1].cname = "42.edge"
    /\ rt.picks[2].at = CachedThrough(1)
    /\ ~rt.picks[2].asked /\ rt.picks[2].cname = "42.edge"
    /\ rt.picks[3].at = CachedThrough(1) + 1
    /\ rt.picks[3].asked /\ ~rt.picks[3].resolved
    /\ Looked(4) /\ rt.picks[4].cname = NoName
    /\ EntryOf(4) = [present |-> TRUE, expires |-> CachedThrough(4), cname |-> NoName]

----------------------------------------------------------------------------
(* Following a CNAME chain: upstream/router.rs, resolve_cname_dns *)

\* names as bytes: a and A differ in case only
ChainNames == {<<"a">>, <<"A">>, <<"b">>, <<"c">>}

\* no CNAME record
NoRecord == <<>>

\* the record graphs: every name has one CNAME or none
ChainGraphs == [ChainNames -> ChainNames \cup {NoRecord}]

\* next.eq_ignore_ascii_case(&cur)
SameChainName(a, b) == LowerAll(a) = LowerAll(b)

\* one pass of the loop with names compared byte by byte
ChainHopExact(c, failed) ==
    IF failed THEN [c EXCEPT !.phase = "done", !.lookups = c.lookups + 1, !.result = "error"]
    ELSE IF c.graph[c.cur] = NoRecord
    THEN [c EXCEPT !.phase = "done", !.lookups = c.lookups + 1, !.result = "none"]
    ELSE IF c.graph[c.cur] = c.cur
    THEN [c EXCEPT !.phase = "done", !.lookups = c.lookups + 1, !.result = "some",
                   !.name = c.cur]
    ELSE [c EXCEPT !.lookups = c.lookups + 1, !.cur = c.graph[c.cur]]

\* one pass of the loop: a lookup of cur that fails, finds no CNAME, finds
\* cur itself, or finds the next name
ChainHop(c, failed) ==
    IF failed THEN [c EXCEPT !.phase = "done", !.lookups = c.lookups + 1, !.result = "error"]
    ELSE IF c.graph[c.cur] = NoRecord
    THEN [c EXCEPT !.phase = "done", !.lookups = c.lookups + 1, !.result = "none"]
    ELSE IF SameChainName(c.graph[c.cur], c.cur)
    THEN [c EXCEPT !.phase = "done", !.lookups = c.lookups + 1, !.result = "some",
                   !.name = c.cur]
    ELSE [c EXCEPT !.lookups = c.lookups + 1, !.cur = c.graph[c.cur]]

\* resolver.lookup(cur, CNAME).await and the rest of the loop body
ChainLookup(failed) ==
    /\ chn.phase = "loop"
    /\ chn.lookups < chn.limit
    /\ chn' = ChainHop(chn, failed)
    /\ UNCHANGED <<ccVars, reloadVars, bodyVars, enf, res, dmq, rt, tls, crt, term, pf, nrm, wev, prn, rrp, kq>>

\* the loop ran cname_chain_limit times: Ok(Some(cur))
ChainReturn ==
    /\ chn.phase = "loop"
    /\ chn.lookups = chn.limit
    /\ chn' = [chn EXCEPT !.phase = "done", !.result = "some", !.name = chn.cur]
    /\ UNCHANGED <<ccVars, reloadVars, bodyVars, enf, res, dmq, rt, tls, crt, term, pf, nrm, wev, prn, rrp, kq>>

\* a call on any record graph, any host and a limit of at least 1
InitChain ==
    /\ CcIdle /\ ReloadIdle /\ BodyIdle
    /\ enf = IdleEnf /\ res = IdleRes /\ dmq = IdleDmq /\ rt = IdleRt
    /\ tls = IdleTls /\ crt = IdleCs /\ term = IdleTerm /\ pf = IdlePf /\ prn = IdlePrn /\ rrp = IdleRrp /\ kq = IdleKq
    /\ nrm = IdleNrm /\ wev = IdleWev
    /\ \E g \in ChainGraphs, h \in ChainNames, l \in 1..MaxChain :
          chn = [phase |-> "loop", graph |-> g, host |-> h, limit |-> l, cur |-> h,
                 lookups |-> 0, result |-> "none", name |-> <<>>]

NextChain ==
    \/ \E failed \in BOOLEAN : ChainLookup(failed)
    \/ ChainReturn

\* the call is polled until it returns
SpecChain == InitChain /\ [][NextChain]_vars /\ WF_vars(NextChain)

\* the name k hops from the host, NoRecord once a hop had no record
RECURSIVE NameAt(_, _, _)
NameAt(g, h, k) ==
    IF k = 0 THEN h
    ELSE IF NameAt(g, h, k - 1) = NoRecord THEN NoRecord
    ELSE g[NameAt(g, h, k - 1)]

\* the hops at which the walk ends before the limit: the name has no CNAME or
\* its CNAME is the name itself
EndingHops(g, h, l) ==
    {k \in 0..(l - 1) :
        /\ NameAt(g, h, k) # NoRecord
        /\ \/ g[NameAt(g, h, k)] = NoRecord
           \/ SameChainName(g[NameAt(g, h, k)], NameAt(g, h, k))}

FirstEndingHop(g, h, l) ==
    CHOOSE k \in EndingHops(g, h, l) : \A j \in EndingHops(g, h, l) : k <= j

\* C31: resolve_cname_dns makes at most chain_limit lookups on every record
\* graph, cycles included, and returns: it stops at the first name whose CNAME
\* is the name itself, ASCII case-insensitively, and returns that name; it
\* returns none as soon as a hop has no CNAME record, also after hops that
\* did resolve; otherwise it returns the name reached after chain_limit hops.
C31_ChainEndsWithinLimit ==
    /\ [](chn.phase # "idle" => chn.lookups <= chn.limit)
    /\ [](chn.phase = "loop" => <>(chn.phase = "done"))
    /\ []((chn.phase = "done" /\ chn.result # "error") =>
            IF EndingHops(chn.graph, chn.host, chn.limit) = {}
            THEN /\ chn.result = "some"
                 /\ chn.name = NameAt(chn.graph, chn.host, chn.limit)
                 /\ chn.lookups = chn.limit
            ELSE LET k == FirstEndingHop(chn.graph, chn.host, chn.limit)
                 IN  /\ chn.lookups = k + 1
                     /\ IF chn.graph[NameAt(chn.graph, chn.host, k)] = NoRecord
                        THEN chn.result = "none"
                        ELSE chn.result = "some"
                             /\ chn.name = NameAt(chn.graph, chn.host, k))

\* b -> c -> a -> A: the third lookup finds a name that differs from a in
\* case only, and the call returns a
C31_Witness ==
    /\ chn.phase = "done"
    /\ chn.host = <<"b">> /\ chn.limit = 3
    /\ chn.graph[<<"b">>] = <<"c">> /\ chn.graph[<<"c">>] = <<"a">>
    /\ chn.graph[<<"a">>] = <<"A">>
    /\ chn.lookups = 3 /\ chn.result = "some" /\ chn.name = <<"a">>

\* b -> c, and c has no record: none, although the first hop resolved
C31_NoneWitness ==
    /\ chn.phase = "done"
    /\ chn.host = <<"b">> /\ chn.limit = 3
    /\ chn.graph[<<"b">>] = <<"c">> /\ chn.graph[<<"c">>] = NoRecord
    /\ chn.lookups = 2 /\ chn.result = "none"

----------------------------------------------------------------------------
(* The sweep of stale limiter entries: policy/cc.rs, prune_older_than *)

\* the threshold the caller passes
PruneThresholds == {Secs(1)}

\* let now = Instant::now(); let mut remove_keys = Vec::new()
PruneStart(d) ==
    /\ prn.phase = "idle"
    /\ prn' = [phase |-> "iter", now |-> now, older_than |-> d,
               unvisited |-> {k \in Keys : table[k].present}, remove_keys |-> {}]
    /\ UNCHANGED <<ccVars, reloadVars, bodyVars, enf, res, dmq, rt, tls, crt, term, pf, nrm, wev, chn, rrp, kq>>

\* if now.duration_since(it.last_seen) > older_than
PruneMarks(e, t, d) == DurationSince(t, e.last_seen) > d

\* one step of `for it in self.table.iter()`: the entry of k is looked at
\* (a key removed or inserted by others meanwhile is seen as it is now)
PruneVisit(k) ==
    /\ prn.phase = "iter"
    /\ k \in prn.unvisited
    /\ prn' = [prn EXCEPT
                 !.unvisited = prn.unvisited \ {k},
                 !.remove_keys = IF table[k].present
                                    /\ PruneMarks(table[k], prn.now, prn.older_than)
                                 THEN prn.remove_keys \cup {k} ELSE prn.remove_keys]
    /\ UNCHANGED <<ccVars, reloadVars, bodyVars, enf, res, dmq, rt, tls, crt, term, pf, nrm, wev, chn, rrp, kq>>

\* the iterator is exhausted
PruneIterEnd ==
    /\ prn.phase = "iter"
    /\ prn.unvisited = {}
    /\ prn' = [prn EXCEPT !.phase = "remove"]
    /\ UNCHANGED <<ccVars, reloadVars, bodyVars, enf, res, dmq, rt, tls, crt, term, pf, nrm, wev, chn, rrp, kq>>

\* one step of `for k in remove_keys { self.table.remove(&k) }`
PruneRemove(k) ==
    /\ prn.phase = "remove"
    /\ k \in prn.remove_keys
    /\ table' = [table EXCEPT ![k] = NoEntry]
    /\ prn' = [prn EXCEPT !.remove_keys = prn.remove_keys \ {k},
                          !.phase = IF prn.remove_keys = {k} THEN "done" ELSE "remove"]
    /\ UNCHANGED <<now, cfg, hist, pc, loc>>
    /\ UNCHANGED <<reloadVars, bodyVars, enf, res, dmq, rt, tls, crt, term, pf, nrm, wev, chn, rrp, kq>>

\* a sweep that found nothing to remove
PruneNothing ==
    /\ prn.phase = "remove"
    /\ prn.remove_keys = {}
    /\ prn' = [prn EXCEPT !.phase = "done"]
    /\ UNCHANGED <<ccVars, reloadVars, bodyVars, enf, res, dmq, rt, tls, crt, term, pf, nrm, wev, chn, rrp, kq>>

\* check calls and one sweep on the same limiter
NextPrune ==
    \/ Tick
    \/ \E k \in Keys : Check(k)
    \/ \E d \in PruneThresholds : PruneStart(d)
    \/ \E k \in Keys : PruneVisit(k)
    \/ PruneIterEnd
    \/ \E k \in Keys : PruneRemove(k)
    \/ PruneNothing

\* the limiter of the rule of scenario 2
InitPrune == InitCc /\ cfg = ExampleCc

SpecPrune == InitPrune /\ [][NextPrune]_vars

\* C32: prune_older_than(d) removes an entry only if, at the moment it is
\* removed, its last_seen is more than d in the past; every entry seen more
\* recently, also one that a check call refreshed while the sweep was under
\* way, stays in the table with its count and blocked_until unchanged.
C32_PruneRemovesOnlyStale ==
    [][\A k \in Keys :
          /\ (table[k].present /\ ~table'[k].present)
                => DurationSince(now, table[k].last_seen) > prn.older_than
          /\ (/\ prn' # prn
              /\ table[k].present
              /\ DurationSince(now, table[k].last_seen) <= prn.older_than)
                => /\ table'[k].present
                   /\ table'[k].count = table[k].count
                   /\ table'[k].blocked_until = table[k].blocked_until]_vars

----------------------------------------------------------------------------
(* A block under concurrent check calls: policy/cc.rs *)

\* the entry of k holds a block that has not run out
BlockInForce(e, t) == e.present /\ e.blocked_until # None /\ t < e.blocked_until

\* C33: once a check call has stored blocked_until = T for a key, every check
\* call for that key that begins before T returns a hit, whatever check calls
\* on the key were in flight: the block stays in the table until T, no call
\* writes back an entry without it, and a call that reads it answers with a
\* hit.
C33_BlockHoldsUntilExpiry ==
    [][/\ \A k \in Keys :
             BlockInForce(table[k], now)
                => /\ BlockInForce(table'[k], now)
                   /\ table'[k].blocked_until >= table[k].blocked_until
       /\ \A p \in Procs :
             (/\ pc[p] = "read" /\ pc'[p] = "idle"
              /\ BlockInForce(loc[p].seen, loc[p].now))
                => hist'[Len(hist')].hit # NoHit]_vars

----------------------------------------------------------------------------
(* Two supervisors publishing into one cell: policy/update.rs *)

\* every supervisor keeps ticking, and a loaded state is swapped in
FairReload ==
    /\ WF_vars(DomainMapTick)
    /\ WF_vars(PolicyDirTick)
    /\ \A s \in {"domain_map", "policies"} : WF_vars(PolicySwap(s))

SpecReloadFair == InitReload /\ [][NextReload]_vars /\ FairReload

\* what load_from_files gives on the files as they are now
CurrentLoad == LoadFromFiles(dmFile, polDir, TRUE, TRUE)

\* the published matcher and policies are those of state st
PublishedIs(st) == policyPub = Merge(st, policyPub)

\* C34: when the domain map and the policy files stop changing and are
\* valid, the PolicyState that is eventually published and stays published is
\* the one compiled from the final files, for every interleaving of the load
\* and swap steps of DomainMapUpdater and PolicyDirUpdater; a supervisor that
\* read the files before the last change never overwrites the state
\* published from the newer files.
C34_FinalFilesStayPublished ==
    /\ [][(/\ CurrentLoad.ok
           /\ PublishedIs(CurrentLoad.val)
           /\ dmFile' = dmFile /\ polDir' = polDir)
            => policyPub' = Merge(CurrentLoad.val, policyPub')]_vars
    /\ <>[](CurrentLoad.ok => PublishedIs(CurrentLoad.val))

----------------------------------------------------------------------------
(* Concurrent picks on one edge key: upstream/router.rs, rr_pick *)

\* a counter that a pick leaves as it found it
FetchAddStuck(counter) == counter

\* counter.fetch_add(1, Ordering::Relaxed): the value left in the counter
FetchAdd(counter) == counter + 1

\* rr_pick up to Some(ups[i].clone()): the counter entry is locked, the task
\* takes the counter value and the upstream at that index
ConcPickTake(q) ==
    /\ ~rrp.flight[q].busy
    /\ rrp.counter < MaxConcPicks
    /\ rrp' = [rrp EXCEPT
                 !.counter = FetchAdd(rrp.counter),
                 !.flight[q] = [busy |-> TRUE, value |-> rrp.counter,
                                upstream |-> rrp.ups[RrIndex(rrp.counter, Len(rrp.ups)) + 1]]]
    /\ UNCHANGED <<ccVars, reloadVars, bodyVars, enf, res, dmq, rt, tls, crt, term, pf, nrm, wev, chn, prn, kq>>

\* pick_endpoint_and_edge_key returns (key, upstream) to the request
ConcPickReturn(q) ==
    /\ rrp.flight[q].busy
    /\ rrp' = [rrp EXCEPT
                 !.flight[q] = NotPicking,
                 !.done = Append(rrp.done, [value |-> rrp.flight[q].value,
                                            upstream |-> rrp.flight[q].upstream])]
    /\ UNCHANGED <<ccVars, reloadVars, bodyVars, enf, res, dmq, rt, tls, crt, term, pf, nrm, wev, chn, prn, kq>>

\* a router whose counter for the key starts at 0; the key's list is the
\* tenant's or the default one
InitConcPick ==
    /\ CcIdle /\ ReloadIdle /\ BodyIdle
    /\ enf = IdleEnf /\ res = IdleRes /\ dmq = IdleDmq /\ rt = IdleRt
    /\ tls = IdleTls /\ crt = IdleCs /\ term = IdleTerm /\ pf = IdlePf /\ nrm = IdleNrm /\ wev = IdleWev /\ chn = IdleChn /\ prn = IdlePrn /\ kq = IdleKq
    /\ \E ups \in {Tenants["42"], DefaultUpstreams} : rrp = [IdleRrp EXCEPT !.ups = ups]

NextConcPick ==
    \/ \E q \in PickTasks : ConcPickTake(q)
    \/ \E q \in PickTasks : ConcPickReturn(q)

SpecConcPick == InitConcPick /\ [][NextConcPick]_vars

\* how often upstream u is among the first k returned picks
TimesReturned(u, k) == Cardinality({i \in 1..k : rrp.done[i].upstream = u})

\* the counter values taken so far, by returned picks and by picks in flight
ValuesTaken ==
    {rrp.done[i].value : i \in 1..Len(rrp.done)}
        \cup {rrp.flight[q].value : q \in {t \in PickTasks : rrp.flight[t].busy}}

PicksStarted == Len(rrp.done) + Cardinality({q \in PickTasks : rrp.flight[q].busy})

\* C35 as stated: concurrent picks for one edge key on a list of n upstreams
\* take distinct counter values, so among the first m*n completed picks each
\* upstream is returned exactly m times, for every interleaving.
C35_Original ==
    /\ Cardinality(ValuesTaken) = PicksStarted
    /\ \A m \in 1..MaxConcPicks :
          m * Len(rrp.ups) <= Len(rrp.done) =>
             \A i \in 1..Len(rrp.ups) : TimesReturned(rrp.ups[i], m * Len(rrp.ups)) = m

\* C35 amended: the picks take the counter values 0, 1, 2, ... each once, and
\* whenever no pick is in flight and m*n picks have returned, each upstream
\* has been returned exactly m times.
C35_Amended ==
    /\ Cardinality(ValuesTaken) = PicksStarted
    /\ ValuesTaken = 0..(PicksStarted - 1)
    /\ \A m \in 1..MaxConcPicks :
          (/\ \A q \in PickTasks : ~rrp.flight[q].busy
           /\ Len(rrp.done) = m * Len(rrp.ups))
             => \A i \in 1..Len(rrp.ups) : TimesReturned(rrp.ups[i], m * Len(rrp.ups)) = m

\* four picks on u1, u2 have returned, the ones with counter values 1 and 3
\* first: u2 twice among the first two, and each upstream twice in all
C35_Witness ==
    /\ rrp.ups = <<"u1", "u2">>
    /\ \A q \in PickTasks : ~rrp.flight[q].busy
    /\ Len(rrp.done) = 4
    /\ rrp.done[1].value = 1 /\ rrp.done[2].value = 3
    /\ TimesReturned("u2", 2) = 2
    /\ TimesReturned("u1", 4) = 2 /\ TimesReturned("u2", 4) = 2

----------------------------------------------------------------------------
(* The limiter key as a string: policy/protection/key.rs, policy/cc.rs *)

\* the symbols of a header value: '|', '=' and the name of a key part (the
\* bytes of "header:h", which a client can send like any others)
KeySyms == {"|", "=", "header:h"}

RECURSIVE KeyTexts(_)
KeyTexts(n) ==
    IF n = 0 THEN {<<>>}
    ELSE KeyTexts(n - 1)
            \cup {t \o <<c>> : t \in {u \in KeyTexts(n - 1) : Len(u) = n - 1}, c \in KeySyms}

\* two Cc rules: r keyed by the headers g and h, s keyed by the header g
KeyRules ==
    { [id |-> <<"r">>, key_parts |-> << <<"header:g">>, <<"header:h">> >>],
      [id |-> <<"s">>, key_parts |-> << <<"header:g">> >>] }

\* the header values a request carries for the parts of a rule
KeyHeaders(rule) ==
    [{rule.key_parts[i] : i \in 1..Len(rule.key_parts)} -> KeyTexts(MaxValue)]

\* part_value for header:<name>: headers.get(name).unwrap_or("")
PartValueString(part, headers) == headers[part]

\* build_key: for each part, '|' between parts, then the part, '=' and its value
RECURSIVE BuildKeyString(_, _)
BuildKeyString(parts, headers) ==
    IF parts = <<>> THEN <<>>
    ELSE LET n == Len(parts)
             out == BuildKeyString(SubSeq(parts, 1, n - 1), headers)
         IN  (IF n > 1 THEN out \o <<"|">> ELSE out)
                \o parts[n] \o <<"=">> \o PartValueString(parts[n], headers)

\* format!("rule={}|{}", rule_id, key_body)
LimiterKeyString(rule_id, key_body) == <<"rule", "=">> \o rule_id \o <<"|">> \o key_body

\* exec_action builds the key body and check the key of the entry
BuildLimiterKey(rule, headers) ==
    /\ kq.phase = "idle"
    /\ kq' = [phase |-> "built", rule |-> rule.id, parts |-> rule.key_parts,
              headers |-> headers,
              key |-> LimiterKeyString(rule.id, BuildKeyString(rule.key_parts, headers))]
    /\ UNCHANGED <<ccVars, reloadVars, bodyVars, enf, res, dmq, rt, tls, crt, term, pf, nrm, wev, chn, prn, rrp>>

InitKey ==
    /\ CcIdle /\ ReloadIdle /\ BodyIdle
    /\ enf = IdleEnf /\ res = IdleRes /\ dmq = IdleDmq /\ rt = IdleRt
    /\ tls = IdleTls /\ crt = IdleCs /\ term = IdleTerm /\ pf = IdlePf /\ nrm = IdleNrm /\ wev = IdleWev /\ chn = IdleChn /\ prn = IdlePrn /\ rrp = IdleRrp
    /\ kq = IdleKq

NextKey == \E rule \in KeyRules : \E headers \in KeyHeaders(rule) : BuildLimiterKey(rule, headers)

SpecKey == InitKey /\ [][NextKey]_vars

\* C36: the limiter key "rule=<rule_id>|<part>=<value>|..." is injective: two
\* check calls use the same entry only if they come from the same rule id and
\* have the same value for every key part; a client-controlled value with
\* '|' or '=' in it cannot make a request share the entry of another rule or
\* of another combination of part values.
C36_LimiterKeyInjective ==
    kq.phase = "built" =>
        \A rule \in KeyRules : \A headers \in KeyHeaders(rule) :
            LimiterKeyString(rule.id, BuildKeyString(rule.key_parts, headers)) = kq.key
                => /\ rule.id = kq.rule
                   /\ headers = kq.headers

----------------------------------------------------------------------------
(* header_regex of a WAF rule: waf/rules/compiler.rs, waf/engine.rs,
   waf/context.rs *)

\* str::to_ascii_uppercase on the method names the rules use
ToAsciiUppercase(m) == IF m = "get" THEN "GET" ELSE IF m = "post" THEN "POST" ELSE m

\* rules as the rules file states them: id, action and the when block
DslRulePool ==
    { [id |-> "ua-bot", action |-> "block",
       when |-> [methods |-> Absent, path_prefix |-> Absent, uri_ac |-> Absent,
                 body_ac |-> Absent,
                 header_regex |-> << [name |-> "User-Agent", pattern |-> "bot"] >>]],
      [id |-> "ua-curl-get", action |-> "challenge",
       when |-> [methods |-> Some({"get"}), path_prefix |-> Absent, uri_ac |-> Absent,
                 body_ac |-> Absent,
                 header_regex |-> << [name |-> "user-agent", pattern |-> "^curl$"] >>]],
      [id |-> "ua-body", action |-> "block",
       when |-> [methods |-> Absent, path_prefix |-> Absent, uri_ac |-> Absent,
                 body_ac |-> Some({<<"a">>}),
                 header_regex |-> << [name |-> "user-agent", pattern |-> "bot"] >>]],
      [id |-> "block-b", action |-> "block",
       when |-> [methods |-> Absent, path_prefix |-> Some({<<"/", "b">>}),
                 uri_ac |-> Absent, body_ac |-> Absent, header_regex |-> <<>>]],
      [id |-> "allow-post", action |-> "allow",
       when |-> [methods |-> Some({"POST"}), path_prefix |-> Absent, uri_ac |-> Absent,
                 body_ac |-> Absent, header_regex |-> <<>>]] }

RECURSIVE DslRuleSeqs(_)
DslRuleSeqs(n) ==
    IF n = 0 THEN {<<>>}
    ELSE DslRuleSeqs(n - 1)
         \cup {t \o <<r>> : t \in {u \in DslRuleSeqs(n - 1) : Len(u) = n - 1},
                            r \in DslRulePool}

\* compile_rule: the matchers of header_regex are built and stored in the
\* compiled rule; methods are upper-cased, header names lower-cased
CompileRule(r) ==
    [id |-> r.id, action |-> r.action,
     methods |-> IF r.when.methods.some
                 THEN Some({ToAsciiUppercase(m) : m \in r.when.methods.v})
                 ELSE Absent,
     path_prefix |-> r.when.path_prefix,
     uri_ac |-> r.when.uri_ac,
     body_ac |-> r.when.body_ac,
     header_regex |-> [i \in 1..Len(r.when.header_regex) |->
                          [name |-> ToAsciiLowercase(r.when.header_regex[i].name),
                           re |-> r.when.header_regex[i].pattern]]]

\* CompiledRuleset::compile
CompileRuleset(rules) == [i \in 1..Len(rules) |-> CompileRule(rules[i])]

\* requests as they arrive: method, raw path and the user-agent header
\* (v is empty or holds the one value)
WafRequests ==
    { [method |-> m, raw_path |-> p, user_agent |-> ua] :
        m \in {"GET", "POST"},
        p \in {<<"/", "a">>, <<"/", "/", "a">>, <<"/", "b">>},
        ua \in {Absent, Some({"bot"}), Some({"curl"})} }

\* WafContext::from_session
FromSession(r) ==
    [method |-> r.method, path |-> NormalizePath(r.raw_path), user_agent |-> r.user_agent]

\* two requests are evaluated against one ruleset, one after the other
EvalPairFirst ==
    /\ wev.phase = "pair"
    /\ wev' = [wev EXCEPT !.phase = "pair_one",
                          !.ctx = FromSession(wev.req1),
                          !.out = EvalRequestHeaders(wev.rules, FromSession(wev.req1))]
    /\ UNCHANGED <<ccVars, reloadVars, bodyVars, enf, res, dmq, rt, tls, crt, term, pf, nrm, chn, prn, rrp, kq>>

EvalPairSecond ==
    /\ wev.phase = "pair_one"
    /\ wev' = [wev EXCEPT !.phase = "pair_done",
                          !.ctx2 = FromSession(wev.req2),
                          !.out2 = EvalRequestHeaders(wev.rules, FromSession(wev.req2))]
    /\ UNCHANGED <<ccVars, reloadVars, bodyVars, enf, res, dmq, rt, tls, crt, term, pf, nrm, chn, prn, rrp, kq>>

InitWafPair ==
    /\ CcIdle /\ ReloadIdle /\ BodyIdle
    /\ enf = IdleEnf /\ res = IdleRes /\ dmq = IdleDmq /\ rt = IdleRt
    /\ tls = IdleTls /\ crt = IdleCs /\ term = IdleTerm /\ pf = IdlePf /\ nrm = IdleNrm /\ chn = IdleChn /\ prn = IdlePrn /\ rrp = IdleRrp /\ kq = IdleKq
    /\ \E dsl \in DslRuleSeqs(MaxPairRules), r1 \in WafRequests, r2 \in WafRequests :
         wev = [phase |-> "pair", rules |-> CompileRuleset(dsl),
                req1 |-> r1, req2 |-> r2,
                ctx |-> IdleWev.ctx, ctx2 |-> IdleWev.ctx,
                out |-> IdleWev.out, out2 |-> IdleWev.out]

NextWafPair == EvalPairFirst \/ EvalPairSecond

SpecWafPair == InitWafPair /\ [][NextWafPair]_vars

\* the rule has header_regex matchers and no other condition
OnlyHeaderRegex(rule) ==
    /\ ~rule.methods.some /\ ~rule.path_prefix.some
    /\ ~rule.uri_ac.some /\ ~rule.body_ac.some
    /\ rule.header_regex # <<>>

\* C37: under one ruleset, two requests with the same method and the same
\* normalized path get the same decision and the same deferred lists whatever
\* their headers are; a rule whose only condition is header_regex is never
\* skipped, so the evaluation ends at that rule or at an earlier one.
C37_HeadersDoNotRestrict ==
    /\ (/\ wev.phase = "pair_done"
        /\ wev.ctx.method = wev.ctx2.method
        /\ wev.ctx.path = wev.ctx2.path) => wev.out = wev.out2
    /\ wev.phase \in {"pair_one", "pair_done"} =>
          \A i \in 1..Len(wev.rules) :
              OnlyHeaderRegex(wev.rules[i]) =>
                  \E j \in 1..i :
                      /\ ~wev.rules[j].body_ac.some
                      /\ wev.out.decision = ActionToDecision(wev.rules[j])

\* a rule whose only condition is a user-agent regex for "bot" blocks a
\* request from "curl" and one without a user-agent, whose raw paths differ
\* and normalize to the same path
C37_Witness ==
    /\ wev.phase = "pair_done"
    /\ Len(wev.rules) >= 1
    /\ wev.rules[1].id = "ua-bot"
    /\ wev.req1.user_agent = Some({"curl"})
    /\ wev.req2.user_agent = Absent
    /\ wev.req1.raw_path # wev.req2.raw_path
    /\ wev.ctx.path = wev.ctx2.path
    /\ wev.ctx.method = wev.ctx2.method
    /\ wev.out.decision.kind = "block"
    /\ wev.out.decision.rule_id = "ua-bot"
    /\ wev.out2 = wev.out

----------------------------------------------------------------------------
(* The stored count under sequential check calls: policy/cc.rs *)

\* max_requests and window as check works with them
MaxReq == Max(cfg.max_requests, 1)
Window == Secs(Max(cfg.window_secs, 1))

\* the step is a check call for key k
IsCheckOf(k) == hist' # hist /\ hist'[Len(hist')].key = k

\* the entry's block has run out, or its window has elapsed, at instant t
BlockExpired(e, t) == e.blocked_until # None /\ ~StillBlocked(e, t)
WindowElapsed(e, t) == DurationSince(t, e.window_start) >= Window

\* C38: for sequential check calls on a key with unchanged parameters, every
\* stored entry has count <= max_requests + 1, and count = max_requests + 1
\* only with blocked_until set; a call on a blocked entry leaves the count as
\* it is, a call after the block has expired or the window has elapsed stores
\* count 1 (reset to 0, then incremented), and any other call adds one.
C38_CountBounded ==
    /\ [](\A k \in Keys : table[k].present =>
              /\ table[k].count <= MaxReq + 1
              /\ table[k].count = MaxReq + 1 => table[k].blocked_until # None)
    /\ [][\A k \in Keys : (IsCheckOf(k) /\ table[k].present) =>
              IF StillBlocked(table[k], now)
              THEN table'[k].count = table[k].count
              ELSE IF BlockExpired(table[k], now) \/ WindowElapsed(table[k], now)
                   THEN table'[k].count = 1
                   ELSE table'[k].count = table[k].count + 1]_vars

\* a key reached max_requests + 1 and was blocked, a call during the block
\* left the count alone, and the call after the expiry stored count 1
C38_Witness ==
    /\ Len(hist) >= 3
    /\ \E i \in 1..(Len(hist) - 2) :
          /\ hist[i].key = hist[i + 1].key /\ hist[i].key = hist[i + 2].key
          /\ hist[i].hit.kind = "exceeded"
          /\ hist[i].after.count = MaxReq + 1
          /\ hist[i + 1].hit.kind = "blocked"
          /\ hist[i + 1].after.count = MaxReq + 1
          /\ hist[i + 2].hit.kind = "none"
          /\ hist[i + 2].after.count = 1
          /\ table[hist[i].key] = hist[i + 2].after

\* a call after the window has elapsed, with no block involved, stored count 1
C38_WindowWitness ==
    /\ Len(hist) >= 2
    /\ \E i \in 1..(Len(hist) - 1) :
          /\ hist[i].key = hist[i + 1].key
          /\ hist[i].after.blocked_until = None
          /\ hist[i].after.count = 2
          /\ hist[i + 1].at - hist[i].after.window_start >= Window
          /\ hist[i + 1].after.count = 1

----------------------------------------------------------------------------
(* The limiter entries one request touches: policy/enforcer.rs,
   policy/protection/engine.rs *)

\* the position of the rule with this id in the list, 0 when there is none
IndexOfId(rules, id) ==
    IF \E i \in 1..Len(rules) : rules[i].id = id
    THEN CHOOSE i \in 1..Len(rules) : rules[i].id = id
    ELSE 0

\* the limiter keys of the Cc rules among the first n rules of the list whose
\* matcher accepts the request
CcKeysUpTo(rules, n, ctx) ==
    { LimiterKey(rules[i].id, BuildKey(rules[i].action.key_parts, ctx)) :
        i \in {j \in 1..Len(rules) :
                  /\ j <= n
                  /\ rules[j].action.kind = "cc"
                  /\ Eval(rules[j].matcher, ctx)} }

\* the keys of the Cc rules the last request reached, read off the rule id
\* of its decision: up to the terminal rule of the precise list, or the
\* whole precise list and the base list up to its terminal rule, or both
\* lists when no rule was terminal
ReachedKeys ==
    LET pi == IndexOfId(enf.policy.precise, enf.decision.rule_id)
        bi == IndexOfId(enf.policy.base, enf.decision.rule_id)
    IN  IF IsTerminal(enf.decision) /\ pi > 0
        THEN CcKeysUpTo(enf.policy.precise, pi, enf.ctx)
        ELSE IF IsTerminal(enf.decision) /\ bi > 0
        THEN CcKeysUpTo(enf.policy.precise, Len(enf.policy.precise), enf.ctx)
                \cup CcKeysUpTo(enf.policy.base, bi, enf.ctx)
        ELSE CcKeysUpTo(enf.policy.precise, Len(enf.policy.precise), enf.ctx)
                \cup CcKeysUpTo(enf.policy.base, Len(enf.policy.base), enf.ctx)

\* C39: a request creates or changes limiter entries only for the Cc rules it
\* reaches: after a terminal precise rule no entry of a later precise rule or
\* of any base rule differs from what it was before the request, and within
\* one list no entry of a Cc rule behind the terminal rule differs.
C39_OnlyReachedRulesCounted ==
    enf.n > 0 =>
        \A k \in EnfKeys : table[k] # enf.before[k] => k \in ReachedKeys

\* the second request of policy p-front is blocked by the precise Cc rule:
\* that rule's entry is now blocked, and the entry of the base Cc rule, which
\* the first request created, is as it was
C39_Witness ==
    /\ enf.n = 2
    /\ enf.policy.id = "p-front"
    /\ enf.decision.kind = "block"
    /\ enf.decision.rule_id = "cc-late"
    /\ \E k \in CcKeysUpTo(enf.policy.precise, 2, enf.ctx) :
          table[k].blocked_until # None /\ table[k] # enf.before[k]
    /\ \E k \in CcKeysUpTo(enf.policy.base, 1, enf.ctx) :
          table[k].present /\ table[k].count = 1 /\ table[k] = enf.before[k]

\* a request for the admin path is blocked by the first precise rule of
\* p-front and leaves the table as it was, the Cc rule behind it included
C39_FirstRuleWitness ==
    /\ enf.n = 1
    /\ enf.policy.id = "p-front"
    /\ enf.decision.rule_id = "block-admin"
    /\ table = enf.before
    /\ \A k \in CcKeysUpTo(enf.policy.precise, 2, enf.ctx) : ~table[k].present

====
